---- MODULE Spec2Model ----
(***************************************************************************)
(* Agent execution framework of DuckshotAnalytics (python_agents):         *)
(* Agent.execute with plugin lifecycle hooks, the six stage agents, the    *)
(* artifact hand-over between stages and OrchestratorAgent.run.            *)
(*                                                                         *)
(* One run = one OrchestratorAgent instance and one entry call into it.    *)
(* Synchronous Python code between two awaits is one atomic step.          *)
(***************************************************************************)
EXTENDS Integers, Sequences, FiniteSets, TLC

(* ------------------------------ bounds --------------------------------- *)
\* add_plugin calls made after OrchestratorAgent.__init__, over all agents
MaxAdded == 1
\* orchestrator instances (runs) the variables are indexed by
MaxRuns == 2

Runs == 1..MaxRuns
\* runs that the sequential specification starts
MainRuns == {1}

(* ------------------------------ values --------------------------------- *)
NoneVal == "<None>"
Subjects == {1, 999}
\* a credential field of User: None, the empty string or a non-empty string
Creds == {NoneVal, "", "test_client_id"}
NoUser == [present |-> FALSE, snapchat_client_id |-> NoneVal, snapchat_api_key |-> NoneVal]
UserRecords ==
    [present : {TRUE}, snapchat_client_id : Creds, snapchat_api_key : Creds]
\* storage._users as the examples and the CLI populate it: subject 999 is
\* never registered, subject 1 may be registered with any credentials
Directories ==
    {[s \in Subjects |-> IF s = 1 THEN u ELSE NoUser] : u \in UserRecords \cup {NoUser}}

\* a dict is an insertion-ordered sequence of key/value pairs
Pair(k, v) == [key |-> k, val |-> v]
DataSimulated == <<Pair("totalFollowers", 24583), Pair("engagementRate", 52)>>
DataZeroFollowers == <<Pair("totalFollowers", 0), Pair("engagementRate", 52)>>
DataNoFollowers == <<Pair("engagementRate", 52)>>
\* values the upstream analytics API can answer with
UpstreamData == {DataSimulated, DataZeroFollowers, DataNoFollowers}
\* texts the insight generator can answer with
InsightTexts == {"Post between 6-8pm", ""}

HasKey(d, k) == \E i \in 1..Len(d) : d[i].key = k
\* dict.get(k) for a key that is present
DictGet(d, k) ==
    LET i == CHOOSE j \in 1..Len(d) : d[j].key = k /\ \A m \in (j+1)..Len(d) : d[m].key # k
    IN  d[i].val

(* ------------------------- bytes, JSON, UTF-8 -------------------------- *)
\* content is a sequence of tokens: punctuation, strings, numbers, raw
\* text, or a byte that is not UTF-8
Tok(k, s, n) == [k |-> k, s |-> s, n |-> n]
LBrace == Tok("punct", "{", 0)
RBrace == Tok("punct", "}", 0)
BadByte == Tok("bad", "", 0)

RECURSIVE DumpPairs(_)
DumpPairs(d) ==
    IF d = << >> THEN << >>
    ELSE <<Tok("str", Head(d).key, 0), Tok("num", "", Head(d).val)>> \o DumpPairs(Tail(d))

\* json.dumps(d).encode('utf-8')
JsonDumps(d) == <<LBrace>> \o DumpPairs(d) \o <<RBrace>>

\* Utf8Encode with a codec that emits a byte outside UTF-8
Utf8EncodeLatin(text) == <<Tok("text", text, 0), BadByte>>

\* str.encode('utf-8')
Utf8Encode(text) == <<Tok("text", text, 0)>>

\* bytes.decode('utf-8') succeeds unless a byte is not UTF-8
Utf8Valid(b) == \A i \in 1..Len(b) : b[i].k # "bad"

\* the text of a plain-text content (a single text token)
Utf8Decode(b) == IF Len(b) = 1 /\ b[1].k = "text" THEN b[1].s ELSE "<json text>"

RECURSIVE LoadPairs(_)
LoadPairs(b) ==
    IF b = << >> THEN << >>
    ELSE <<Pair(b[1].s, b[2].n)>> \o LoadPairs(SubSeq(b, 3, Len(b)))

\* json.loads accepts "{" (string number)* "}"
JsonValid(b) ==
    /\ Len(b) >= 2
    /\ b[1] = LBrace
    /\ b[Len(b)] = RBrace
    /\ (Len(b) - 2) % 2 = 0
    /\ \A i \in 2..(Len(b) - 1) : b[i].k = (IF i % 2 = 0 THEN "str" ELSE "num")

\* json.loads(content.decode('utf-8')): ok = FALSE stands for
\* json.JSONDecodeError or UnicodeDecodeError
JsonLoads(b) ==
    IF Utf8Valid(b) /\ JsonValid(b)
    THEN [ok |-> TRUE, val |-> LoadPairs(SubSeq(b, 2, Len(b) - 1))]
    ELSE [ok |-> FALSE, val |-> << >>]

(* ------------------------------ artifacts ------------------------------ *)
Artifact(name, content, mime) == [name |-> name, content |-> content, mimeType |-> mime]

\* artifact_service.create: the store keeps every artifact it returned; an
\* artifact is referred to by its position in the store
ArtifactCreate(store, name, content, mime) == Append(store, Artifact(name, content, mime))

\* artifact names: f"snapchat-data-{user_id}" and f"insight-{name}"
FetchName(uid) == <<"snapchat-data", uid>>
InsightName(name) == <<"insight">> \o name

\* artifacts a caller can obtain from artifact_service.create and hand to an
\* agent: a plain text, a JSON document cut by a byte outside UTF-8, and a
\* well-formed JSON document
CallerArtifacts ==
    { Artifact(InsightName(FetchName(1)), Utf8Encode("Post between 6-8pm"), "text/plain"),
      Artifact(FetchName(1), <<LBrace, BadByte, RBrace>>, "application/json"),
      Artifact(FetchName(1), JsonDumps(DataSimulated), "application/json") }

(* ---------------------------- result values ---------------------------- *)
\* what a run method returns: None, True, an artifact, or the bundle
Val(kind, ref, data, text) == [kind |-> kind, ref |-> ref, data |-> data, text |-> text]
NoneResult == Val("None", 0, << >>, "")
TrueResult == Val("True", 0, << >>, "")
ArtifactResult(ref) == Val("Artifact", ref, << >>, "")
\* {"snapchatData": snapchat_data, "insights": insights}
Bundle(data, insights) == Val("bundle", 0, data, insights)

(* ------------------------------- failures ------------------------------ *)
\* an exception: Python type, message, and where it was raised (agent,
\* site, index of the plugin when a hook raised it)
Err(type, msg, agent, site, idx) ==
    [type |-> type, msg |-> msg, agent |-> agent, site |-> site, idx |-> idx]
NoError == Err("", "", "", "", 0)

(* ------------------------------- plugins ------------------------------- *)
Agents == {"Orchestrator", "Fetch", "Analysis", "Validation", "Safety", "Evaluation", "Persistence"}
Stages == <<"Fetch", "Analysis", "Validation", "Safety", "Evaluation", "Persistence">>
Hooks == {"on_agent_start", "on_agent_end", "on_agent_error"}

\* a plugin is any object: each hook is absent, returns, or raises
Plugin(s, e, x) == [on_agent_start |-> s, on_agent_end |-> e, on_agent_error |-> x]
LoggingPlugin == Plugin("ok", "ok", "ok")
\* plugins a caller may attach with add_plugin
PluginKinds ==
    { Plugin("ok", "absent", "absent"),
      Plugin("absent", "ok", "ok"),
      Plugin("raise", "ok", "ok"),
      Plugin("ok", "raise", "ok"),
      Plugin("ok", "ok", "raise") }

\* one entry of the observable history
Event(r, agent, ev, idx, arg) == [run |-> r, agent |-> agent, ev |-> ev, idx |-> idx, arg |-> arg]

\* the loop of _trigger_start/_trigger_end/_trigger_error from plugin i on:
\* a plugin without the hook is skipped, a hook that raises ends the loop
RECURSIVE TriggerFrom(_, _, _, _, _, _)
TriggerFrom(ps, i, hook, r, agent, arg) ==
    IF i > Len(ps) THEN [events |-> << >>, raised |-> NoError]
    ELSE IF ps[i][hook] = "absent" THEN TriggerFrom(ps, i + 1, hook, r, agent, arg)
    ELSE IF ps[i][hook] = "raise"
         THEN LET error == Err("RuntimeError", "hook failed", agent, hook, i)
              IN  [events |-> <<Event(r, agent, hook, i, arg),
                                Event(r, agent, "hook_raise", i, error)>>,
                   raised |-> error]
    ELSE LET rest == TriggerFrom(ps, i + 1, hook, r, agent, arg)
         IN  [events |-> <<Event(r, agent, hook, i, arg)>> \o rest.events,
              raised |-> rest.raised]

\* _trigger_start without the hasattr test: a plugin that has no
\* on_agent_start fails the call
_trigger_start_unchecked(ps, r, agent, args) ==
    TriggerFrom([i \in 1..Len(ps) |->
                    IF ps[i].on_agent_start = "absent"
                    THEN [ps[i] EXCEPT !.on_agent_start = "raise"] ELSE ps[i]],
                1, "on_agent_start", r, agent, args)

_trigger_start(ps, r, agent, args) == TriggerFrom(ps, 1, "on_agent_start", r, agent, args)
\* _trigger_end that catches what an on_agent_end hook raises and goes on
_trigger_end_guarded(ps, r, agent, result) ==
    [events |-> TriggerFrom(ps, 1, "on_agent_end", r, agent, result).events, raised |-> NoError]

_trigger_end(ps, r, agent, result) == TriggerFrom(ps, 1, "on_agent_end", r, agent, result)
_trigger_error(ps, r, agent, error) == TriggerFrom(ps, 1, "on_agent_error", r, agent, error)

\* ExecuteReturnValue of an execute that answers with what its last
\* on_agent_end hook returned (None) whenever a hook was notified
ExecuteReturnsHookValue(result, notified) ==
    IF notified.events = << >> THEN result ELSE NoneResult

\* the try clause of Agent.execute after run returned result and
\* _trigger_end(result) returned: "return result"
ExecuteReturnValue(result, notified) == result

\* the except clause of Agent.execute: notify on_agent_error, then re-raise
\* the caught exception; an exception raised by a hook replaces it
ExecuteExcept(ps, r, agent, error) ==
    LET t == _trigger_error(ps, r, agent, error)
        out == IF t.raised = NoError THEN error ELSE t.raised
    IN  [events |-> t.events \o <<Event(r, agent, "raise", 0, out)>>, raised |-> out]

(* -------------------------------- state -------------------------------- *)
VARIABLES
    users,          \* storage._users
    snapchat_data,  \* storage._snapchat_data
    ai_insights,    \* storage._ai_insights
    artifacts,      \* the artifact store
    plugins,        \* plugins[r][a]: Agent._plugins of agent a of run r
    added,          \* add_plugin calls made after construction
    top,            \* top[r]: the agent whose execute the caller invoked
    state,          \* state[r]: state of the run
    pc,             \* pc[r]: position inside the current stage
    loc,            \* loc[r]: local variables of the run
    path,           \* path[r]: the states the run has been in, in order
    outcome,        \* outcome[r]: what the caller received
    log             \* history of calls, hook notifications and results

vars == <<users, snapchat_data, ai_insights, artifacts, plugins, added, top,
          state, path, pc, loc, outcome, log>>

StateOf(stage) ==
    CASE stage = "Fetch" -> "Fetching"
      [] stage = "Analysis" -> "Analyzing"
      [] stage = "Validation" -> "Validating"
      [] stage = "Safety" -> "ScreeningSafety"
      [] stage = "Evaluation" -> "Evaluating"
      [] stage = "Persistence" -> "Persisting"

StageStates == {StateOf(Stages[i]) : i \in 1..Len(Stages)}
StageOf(st) == CHOOSE a \in Agents \ {"Orchestrator"} : StateOf(a) = st

\* AfterStage with the safety screening and the evaluation calls exchanged
AfterStageSwapped(stage) ==
    CASE stage = "Fetch" -> "Analyzing"
      [] stage = "Analysis" -> "DecodingArtifacts"
      [] stage = "Validation" -> "Evaluating"
      [] stage = "Evaluation" -> "ScreeningSafety"
      [] stage = "Safety" -> "Persisting"

\* the state OrchestratorAgent.run enters when a stage before the last
\* one has returned
AfterStage(stage) ==
    CASE stage = "Fetch" -> "Analyzing"
      [] stage = "Analysis" -> "DecodingArtifacts"
      [] stage = "Validation" -> "ScreeningSafety"
      [] stage = "Safety" -> "Evaluating"
      [] stage = "Evaluation" -> "Persisting"

NoLocals ==
    [user_id |-> 0, user |-> NoUser, fetched |-> << >>, insight |-> "",
     snapchat_data_artifact |-> 0, insight_artifact |-> 0,
     snapchat_data |-> << >>, insights |-> "", result |-> NoneResult]

NoOutcome == [status |-> "none", error |-> NoError, value |-> NoneResult]

\* OrchestratorAgent.__init__: every agent gets one LoggingPlugin
InitPlugins == [a \in Agents |-> <<LoggingPlugin>>]

InitRuns(started) ==
    /\ users \in Directories
    /\ snapchat_data = [s \in Subjects |-> NoneVal]
    /\ ai_insights = [s \in Subjects |-> NoneVal]
    /\ artifacts = << >>
    /\ plugins = [r \in Runs |-> InitPlugins]
    /\ added = 0
    /\ top = [r \in Runs |-> "Orchestrator"]
    /\ state = [r \in Runs |-> IF r \in started THEN "Created" ELSE "Idle"]
    /\ path = [r \in Runs |-> <<state[r]>>]
    /\ pc = [r \in Runs |-> "entry"]
    /\ loc = [r \in Runs |-> NoLocals]
    /\ outcome = [r \in Runs |-> NoOutcome]
    /\ log = << >>

Init == InitRuns(MainRuns)

\* the arguments the orchestrator passes to the execute of a stage
StageArgs(l, stage) ==
    CASE stage = "Fetch" -> <<l.user_id>>
      [] stage = "Analysis" -> <<l.snapchat_data_artifact>>
      [] stage = "Validation" -> <<l.snapchat_data, l.insights>>
      [] stage = "Safety" -> <<l.snapchat_data, l.insights>>
      [] stage = "Evaluation" -> <<l.insights>>
      [] stage = "Persistence" -> <<l.user_id, l.snapchat_data, l.insights>>

\* the run moves to state st
Goto(r, st) ==
    /\ state' = [state EXCEPT ![r] = st]
    /\ path' = [path EXCEPT ![r] = Append(@, st)]

\* Unwind with the orchestrator's handler notified before the sub-agent's
UnwindOuterFirst(r, a, error) ==
    LET inner == ExecuteExcept(plugins[r][a], r, a, error)
    IN  IF a # "Orchestrator" /\ top[r] = "Orchestrator"
        THEN LET outer == ExecuteExcept(plugins[r]["Orchestrator"], r, "Orchestrator", error)
             IN  [events |-> outer.events \o inner.events, raised |-> inner.raised]
        ELSE inner

\* an exception leaving agent a: the except clause of a's execute, and, when
\* a is a sub-agent called from OrchestratorAgent.run, the except clause of
\* the orchestrator's execute (run has no handler around the stage calls)
Unwind(r, a, error) ==
    LET inner == ExecuteExcept(plugins[r][a], r, a, error)
    IN  IF a # "Orchestrator" /\ top[r] = "Orchestrator"
        THEN LET outer == ExecuteExcept(plugins[r]["Orchestrator"], r, "Orchestrator", inner.raised)
             IN  [events |-> inner.events \o outer.events, raised |-> outer.raised]
        ELSE inner

\* Raise with a handler that answers with what has been computed so far
RaisePartialBundle(r, a, error, pre) ==
    LET u == Unwind(r, a, error)
    IN  /\ log' = log \o pre \o u.events
        /\ Goto(r, "Failed")
        /\ pc' = [pc EXCEPT ![r] = "done"]
        /\ outcome' = [outcome EXCEPT ![r] =
                          [status |-> "returned", error |-> u.raised,
                           value |-> Bundle(loc[r].snapchat_data, loc[r].insights)]]

\* the run ends with an exception delivered to the caller
Raise(r, a, error, pre) ==
    LET u == Unwind(r, a, error)
    IN  /\ log' = log \o pre \o u.events
        /\ Goto(r, "Failed")
        /\ pc' = [pc EXCEPT ![r] = "done"]
        /\ outcome' = [outcome EXCEPT ![r] = [status |-> "raised", error |-> u.raised, value |-> NoneResult]]

\* RunRaise of a caller that calls execute of the stage again when its run
\* raised
RunRaiseRetried(r, a, error, pre) ==
    /\ log' = log \o pre \o <<Event(r, a, "run_raise", 0, error)>>
    /\ pc' = [pc EXCEPT ![r] = "execute"]
    /\ UNCHANGED <<state, path, outcome>>

\* the run method of agent a raises
RunRaise(r, a, error, pre) == Raise(r, a, error, pre \o <<Event(r, a, "run_raise", 0, error)>>)

(* -------------------------- stage computations ------------------------- *)
\* Python truthiness of a credential field
FalsyCred(c) == c \in {NoneVal, ""}

\* CredentialsMissing with "is None" tests in place of truthiness
CredentialsMissingNoneOnly(user) ==
    ~user.present \/ user.snapchat_client_id = NoneVal \/ user.snapchat_api_key = NoneVal

\* not user or not user.snapchat_client_id or not user.snapchat_api_key
CredentialsMissing(user) ==
    ~user.present \/ FalsyCred(user.snapchat_client_id) \/ FalsyCred(user.snapchat_api_key)

\* services.snapchat.fetch_snapchat_data: data is the answer of the API
fetch_snapchat_data(client_id, api_key, data) ==
    IF FalsyCred(client_id) \/ FalsyCred(api_key)
    THEN [ok |-> FALSE, msg |-> "Invalid Snapchat API credentials", val |-> << >>]
    ELSE [ok |-> TRUE, msg |-> "", val |-> data]

\* TestAgentRun without the check of the Snapchat data
TestAgentRunInsightsOnly(data, insights) ==
    IF insights = "" THEN "Invalid insights: not a string" ELSE ""

\* TestAgent.run: the message of the exception it raises, "" when it passes
TestAgentRun(data, insights) ==
    IF data = << >> \/ ~HasKey(data, "totalFollowers") \/ DictGet(data, "totalFollowers") = 0
    THEN "Invalid Snapchat data: missing totalFollowers"
    ELSE IF insights = ""
    THEN "Invalid insights: not a string"
    ELSE ""

\* SafetyAgentRun with the screening of the insights before that of the data
SafetyAgentRunContentFirst(pii, inappropriate) ==
    IF inappropriate THEN "Insights contain inappropriate content"
    ELSE IF pii THEN "Snapchat data contains PII"
    ELSE ""

\* SafetyAgent.run, given the verdicts of contains_pii and
\* contains_inappropriate_content
SafetyAgentRun(pii, inappropriate) ==
    IF pii THEN "Snapchat data contains PII"
    ELSE IF inappropriate THEN "Insights contain inappropriate content"
    ELSE ""

\* EvaluationAgentRun with the actionability check before the relevance check
EvaluationAgentRunActionableFirst(relevant, actionable) ==
    IF ~actionable THEN "Insights are not actionable"
    ELSE IF ~relevant THEN "Insights are not relevant"
    ELSE ""

\* EvaluationAgent.run, given the verdicts of _is_relevant and _is_actionable
EvaluationAgentRun(relevant, actionable) ==
    IF ~relevant THEN "Insights are not relevant"
    ELSE IF ~actionable THEN "Insights are not actionable"
    ELSE ""

\* the predicates as the source implements them
contains_pii(data) == FALSE
contains_inappropriate_content(text) == FALSE
_is_relevant(insights) == TRUE
_is_actionable(insights) == TRUE

(* ------------------------------- actions ------------------------------- *)
\* Agent.add_plugin, called on the orchestrator or one of its sub-agents
\* before the run is started
AddPlugin(r, a, p) ==
    /\ state[r] = "Created"
    /\ added < MaxAdded
    /\ plugins' = [plugins EXCEPT ![r][a] = Append(@, p)]
    /\ added' = added + 1
    /\ UNCHANGED <<users, snapchat_data, ai_insights, artifacts, top, state, path, pc, loc, outcome, log>>

\* orchestrator.execute(user_id=uid): on_agent_start hooks, then run begins
Execute(r, uid) ==
    /\ state[r] = "Created"
    /\ LET ps == plugins[r]["Orchestrator"]
           t == _trigger_start(ps, r, "Orchestrator", <<uid>>)
           pre == <<Event(r, "Orchestrator", "execute", 0, <<uid>>)>> \o t.events
       IN  /\ top' = [top EXCEPT ![r] = "Orchestrator"]
           /\ loc' = [loc EXCEPT ![r].user_id = uid]
           /\ IF t.raised = NoError
              THEN /\ log' = log \o pre \o <<Event(r, "Orchestrator", "run", 0, <<uid>>)>>
                   /\ Goto(r, "Fetching")
                   /\ pc' = [pc EXCEPT ![r] = "execute"]
                   /\ UNCHANGED outcome
              ELSE Raise(r, "Orchestrator", t.raised, pre)
    /\ UNCHANGED <<users, snapchat_data, ai_insights, artifacts, plugins, added>>

\* data_analyzer.execute(artifact) called directly, as the individual-agents
\* example does, with an artifact the caller obtained from the store
ExecuteAnalysis(r, art) ==
    /\ state[r] = "Created"
    /\ artifacts' = ArtifactCreate(artifacts, art.name, art.content, art.mimeType)
    /\ top' = [top EXCEPT ![r] = "Analysis"]
    /\ loc' = [loc EXCEPT ![r].snapchat_data_artifact = Len(artifacts) + 1]
    /\ Goto(r, "Analyzing")
    /\ pc' = [pc EXCEPT ![r] = "execute"]
    /\ UNCHANGED <<users, snapchat_data, ai_insights, plugins, added, outcome, log>>

\* StageExecute of an orchestrator that calls the run method of the stage
\* directly, without execute and its hooks
StageExecuteRunDirect(r) ==
    /\ state[r] \in StageStates
    /\ pc[r] = "execute"
    /\ log' = log \o <<Event(r, StageOf(state[r]), "run", 0, StageArgs(loc[r], StageOf(state[r])))>>
    /\ pc' = [pc EXCEPT ![r] = "run"]
    /\ UNCHANGED <<users, snapchat_data, ai_insights, artifacts, plugins, added, top, loc, state, path, outcome>>

\* Agent.execute of the current stage up to the call of run
StageExecute(r) ==
    /\ state[r] \in StageStates
    /\ pc[r] = "execute"
    /\ LET a == StageOf(state[r])
           args == StageArgs(loc[r], a)
           t == _trigger_start(plugins[r][a], r, a, args)
           pre == <<Event(r, a, "execute", 0, args)>> \o t.events
       IN  IF t.raised = NoError
           THEN /\ log' = log \o pre \o <<Event(r, a, "run", 0, args)>>
                /\ pc' = [pc EXCEPT ![r] = "run"]
                /\ UNCHANGED <<state, path, outcome>>
           ELSE Raise(r, a, t.raised, pre)
    /\ UNCHANGED <<users, snapchat_data, ai_insights, artifacts, plugins, added, top, loc>>

\* FetchGetUser without the credentials check: whatever record the lookup
\* gives is handed to the upstream fetch
FetchGetUserUnchecked(r) ==
    /\ state[r] = "Fetching"
    /\ pc[r] = "run"
    /\ loc' = [loc EXCEPT ![r].user = users[loc[r].user_id]]
    /\ log' = log \o <<Event(r, "Fetch", "get_user", 0, loc[r].user_id)>>
    /\ pc' = [pc EXCEPT ![r] = "fetch"]
    /\ UNCHANGED <<state, path, outcome>>
    /\ UNCHANGED <<users, snapchat_data, ai_insights, artifacts, plugins, added, top>>

\* SnapchatDataFetcherAgent.run: storage.get_user and the credentials check
FetchGetUser(r) ==
    /\ state[r] = "Fetching"
    /\ pc[r] = "run"
    /\ LET uid == loc[r].user_id
           user == users[uid]
           call == <<Event(r, "Fetch", "get_user", 0, uid)>>
       IN  IF CredentialsMissing(user)
           THEN /\ RunRaise(r, "Fetch",
                            Err("ValueError", "Snapchat credentials not found", "Fetch", "run", 0), call)
                /\ UNCHANGED loc
           ELSE /\ loc' = [loc EXCEPT ![r].user = user]
                /\ log' = log \o call
                /\ pc' = [pc EXCEPT ![r] = "fetch"]
                /\ UNCHANGED <<state, path, outcome>>
    /\ UNCHANGED <<users, snapchat_data, ai_insights, artifacts, plugins, added, top>>

\* fetch_snapchat_data(client_id, api_key)
FetchSnapchatData(r, data) ==
    /\ state[r] = "Fetching"
    /\ pc[r] = "fetch"
    /\ LET user == loc[r].user
           call == <<Event(r, "Fetch", "fetch_snapchat_data", 0,
                           <<user.snapchat_client_id, user.snapchat_api_key>>)>>
           answer == fetch_snapchat_data(user.snapchat_client_id, user.snapchat_api_key, data)
       IN  IF ~answer.ok
           THEN /\ RunRaise(r, "Fetch", Err("ValueError", answer.msg, "Fetch", "run", 0), call)
                /\ UNCHANGED loc
           ELSE /\ loc' = [loc EXCEPT ![r].fetched = answer.val]
                /\ log' = log \o call
                /\ pc' = [pc EXCEPT ![r] = "create"]
                /\ UNCHANGED <<state, path, outcome>>
    /\ UNCHANGED <<users, snapchat_data, ai_insights, artifacts, plugins, added, top>>

\* FetchCreateArtifact of an agent that stamps the data with the number of
\* artifacts in the store before it serializes them
FetchCreateArtifactStamped(r) ==
    /\ state[r] = "Fetching"
    /\ pc[r] = "create"
    /\ LET name == FetchName(loc[r].user_id)
           ref == Len(artifacts) + 1
           stamped == Append(loc[r].fetched, Pair("artifactNo", Len(artifacts)))
       IN  /\ artifacts' = ArtifactCreate(artifacts, name, JsonDumps(stamped), "application/json")
           /\ loc' = [loc EXCEPT ![r].result = ArtifactResult(ref)]
           /\ log' = log \o <<Event(r, "Fetch", "create", 0, ref),
                              Event(r, "Fetch", "run_return", 0, ArtifactResult(ref))>>
    /\ pc' = [pc EXCEPT ![r] = "end"]
    /\ UNCHANGED <<users, snapchat_data, ai_insights, plugins, added, top, state, path, outcome>>

\* artifact_service.create(name=f"snapchat-data-{user_id}", ...); return artifact
FetchCreateArtifact(r) ==
    /\ state[r] = "Fetching"
    /\ pc[r] = "create"
    /\ LET name == FetchName(loc[r].user_id)
           ref == Len(artifacts) + 1
       IN  /\ artifacts' = ArtifactCreate(artifacts, name, JsonDumps(loc[r].fetched), "application/json")
           /\ loc' = [loc EXCEPT ![r].result = ArtifactResult(ref)]
           /\ log' = log \o <<Event(r, "Fetch", "create", 0, ref),
                              Event(r, "Fetch", "run_return", 0, ArtifactResult(ref))>>
    /\ pc' = [pc EXCEPT ![r] = "end"]
    /\ UNCHANGED <<users, snapchat_data, ai_insights, plugins, added, top, state, path, outcome>>

\* AnalysisRun without the try/except around the parse: a content that does
\* not parse is handed on as an empty value
AnalysisRunUnchecked(r, text) ==
    /\ state[r] = "Analyzing"
    /\ pc[r] = "run"
    /\ LET parsed == JsonLoads(artifacts[loc[r].snapchat_data_artifact].content)
       IN  /\ loc' = [loc EXCEPT ![r].insight = text]
           /\ log' = log \o <<Event(r, "Analysis", "generate_ai_insight", 0, parsed.val)>>
           /\ pc' = [pc EXCEPT ![r] = "create"]
           /\ UNCHANGED <<state, path, outcome>>
    /\ UNCHANGED <<users, snapchat_data, ai_insights, artifacts, plugins, added, top>>

\* DataAnalysisAgent.run: parse the artifact, then generate_ai_insight
AnalysisRun(r, text) ==
    /\ state[r] = "Analyzing"
    /\ pc[r] = "run"
    /\ LET parsed == JsonLoads(artifacts[loc[r].snapchat_data_artifact].content)
       IN  IF ~parsed.ok
           THEN /\ RunRaise(r, "Analysis",
                            Err("ValueError", "Invalid Snapchat data format in artifact",
                                "Analysis", "run", 0), << >>)
                /\ UNCHANGED loc
           ELSE /\ loc' = [loc EXCEPT ![r].insight = text]
                /\ log' = log \o <<Event(r, "Analysis", "generate_ai_insight", 0, parsed.val)>>
                /\ pc' = [pc EXCEPT ![r] = "create"]
                /\ UNCHANGED <<state, path, outcome>>
    /\ UNCHANGED <<users, snapchat_data, ai_insights, artifacts, plugins, added, top>>

\* AnalysisCreateArtifact of an agent that writes the insight into the
\* artifact it was given and returns that artifact
AnalysisCreateArtifactInPlace(r) ==
    /\ state[r] = "Analyzing"
    /\ pc[r] = "create"
    /\ LET ref == loc[r].snapchat_data_artifact
       IN  /\ artifacts' = [artifacts EXCEPT ![ref].content = Utf8Encode(loc[r].insight)]
           /\ loc' = [loc EXCEPT ![r].result = ArtifactResult(ref)]
           /\ log' = log \o <<Event(r, "Analysis", "create", 0, ref),
                              Event(r, "Analysis", "run_return", 0, ArtifactResult(ref))>>
    /\ pc' = [pc EXCEPT ![r] = "end"]
    /\ UNCHANGED <<users, snapchat_data, ai_insights, plugins, added, top, state, path, outcome>>

\* artifact_service.create(name=f"insight-{name}", ...); return insight_artifact
AnalysisCreateArtifact(r) ==
    /\ state[r] = "Analyzing"
    /\ pc[r] = "create"
    /\ LET name == InsightName(artifacts[loc[r].snapchat_data_artifact].name)
           ref == Len(artifacts) + 1
       IN  /\ artifacts' = ArtifactCreate(artifacts, name, Utf8Encode(loc[r].insight), "text/plain")
           /\ loc' = [loc EXCEPT ![r].result = ArtifactResult(ref)]
           /\ log' = log \o <<Event(r, "Analysis", "create", 0, ref),
                              Event(r, "Analysis", "run_return", 0, ArtifactResult(ref))>>
    /\ pc' = [pc EXCEPT ![r] = "end"]
    /\ UNCHANGED <<users, snapchat_data, ai_insights, plugins, added, top, state, path, outcome>>

\* OrchestratorDecode of an orchestrator that looks its artifacts up in the
\* store by name and takes the latest one of that name
OrchestratorDecodeByName(r) ==
    /\ state[r] = "DecodingArtifacts"
    /\ pc[r] = "decode"
    /\ LET Latest(ref) ==
               CHOOSE i \in 1..Len(artifacts) :
                   /\ artifacts[i].name = artifacts[ref].name
                   /\ \A j \in (i + 1)..Len(artifacts) : artifacts[j].name # artifacts[ref].name
           parsed == JsonLoads(artifacts[Latest(loc[r].snapchat_data_artifact)].content)
           text == artifacts[Latest(loc[r].insight_artifact)].content
       IN  IF ~parsed.ok
           THEN /\ RunRaise(r, "Orchestrator",
                            Err("ValueError", "Invalid Snapchat data format in artifact",
                                "Orchestrator", "run", 0), << >>)
                /\ UNCHANGED loc
           ELSE /\ loc' = [loc EXCEPT ![r].snapchat_data = parsed.val, ![r].insights = Utf8Decode(text)]
                /\ Goto(r, "Validating")
                /\ pc' = [pc EXCEPT ![r] = "execute"]
                /\ UNCHANGED <<log, outcome>>
    /\ UNCHANGED <<users, snapchat_data, ai_insights, artifacts, plugins, added, top>>

\* OrchestratorAgent.run, step 3: parse both artifacts
OrchestratorDecode(r) ==
    /\ state[r] = "DecodingArtifacts"
    /\ pc[r] = "decode"
    /\ LET parsed == JsonLoads(artifacts[loc[r].snapchat_data_artifact].content)
           text == artifacts[loc[r].insight_artifact].content
       IN  IF ~parsed.ok
           THEN /\ RunRaise(r, "Orchestrator",
                            Err("ValueError", "Invalid Snapchat data format in artifact",
                                "Orchestrator", "run", 0), << >>)
                /\ UNCHANGED loc
           ELSE IF ~Utf8Valid(text)
           THEN /\ RunRaise(r, "Orchestrator",
                            Err("UnicodeDecodeError", "invalid start byte", "Orchestrator", "run", 0), << >>)
                /\ UNCHANGED loc
           ELSE /\ loc' = [loc EXCEPT ![r].snapchat_data = parsed.val, ![r].insights = Utf8Decode(text)]
                /\ Goto(r, "Validating")
                /\ pc' = [pc EXCEPT ![r] = "execute"]
                /\ UNCHANGED <<log, outcome>>
    /\ UNCHANGED <<users, snapchat_data, ai_insights, artifacts, plugins, added, top>>

\* CheckRun of an orchestrator that does not await the execute of the stage:
\* the next stage is started while the call is still open
CheckRunNotAwaited(r, a, msg, type, calls) ==
    /\ IF msg # ""
       THEN RunRaise(r, a, Err(type, msg, a, "run", 0), calls)
       ELSE /\ log' = log \o calls \o <<Event(r, a, "run_return", 0, TrueResult)>>
            /\ pc' = [pc EXCEPT ![r] = "execute"]
            /\ Goto(r, AfterStage(a))
            /\ UNCHANGED outcome
    /\ loc' = [loc EXCEPT ![r].result = IF msg # "" THEN @ ELSE TrueResult]
    /\ UNCHANGED <<users, snapchat_data, ai_insights, artifacts, plugins, added, top>>

\* the run method of a stage that only checks its arguments
CheckRun(r, a, msg, type, calls) ==
    /\ IF msg # ""
       THEN RunRaise(r, a, Err(type, msg, a, "run", 0), calls)
       ELSE /\ log' = log \o calls \o <<Event(r, a, "run_return", 0, TrueResult)>>
            /\ pc' = [pc EXCEPT ![r] = "end"]
            /\ UNCHANGED <<state, path, outcome>>
    /\ loc' = [loc EXCEPT ![r].result = IF msg # "" THEN @ ELSE TrueResult]
    /\ UNCHANGED <<users, snapchat_data, ai_insights, artifacts, plugins, added, top>>

\* TestAgent.run
ValidationRun(r) ==
    /\ state[r] = "Validating"
    /\ pc[r] = "run"
    /\ CheckRun(r, "Validation", TestAgentRun(loc[r].snapchat_data, loc[r].insights), "Exception", << >>)

\* SafetyAgent.run; the second predicate is consulted only if the first is clear
SafetyRun(r, pii, inappropriate) ==
    /\ state[r] = "ScreeningSafety"
    /\ pc[r] = "run"
    /\ CheckRun(r, "Safety", SafetyAgentRun(pii, inappropriate), "Exception",
                <<Event(r, "Safety", "contains_pii", 0, pii)>> \o
                (IF pii THEN << >>
                 ELSE <<Event(r, "Safety", "contains_inappropriate_content", 0, inappropriate)>>))

\* EvaluationAgent.run; the second predicate is consulted only if the first holds
EvaluationRun(r, relevant, actionable) ==
    /\ state[r] = "Evaluating"
    /\ pc[r] = "run"
    /\ CheckRun(r, "Evaluation", EvaluationAgentRun(relevant, actionable), "ValueError",
                <<Event(r, "Evaluation", "_is_relevant", 0, relevant)>> \o
                (IF relevant THEN <<Event(r, "Evaluation", "_is_actionable", 0, actionable)>>
                 ELSE << >>))

\* DatabaseSaveData of an agent that goes on to the insight when the first
\* write fails
DatabaseSaveDataLenient(r, ok) ==
    /\ state[r] = "Persisting"
    /\ pc[r] = "run"
    /\ snapchat_data' = IF ok THEN [snapchat_data EXCEPT ![loc[r].user_id] = loc[r].snapchat_data]
                        ELSE snapchat_data
    /\ log' = log \o <<Event(r, "Persistence", "save_snapchat_data", 0, ok)>>
    /\ pc' = [pc EXCEPT ![r] = "save_insight"]
    /\ UNCHANGED <<users, ai_insights, artifacts, plugins, added, top, loc, state, path, outcome>>

\* DatabaseAgent.run, step 1: storage.save_snapchat_data; ok is whether the
\* storage call succeeds
DatabaseSaveData(r, ok) ==
    /\ state[r] = "Persisting"
    /\ pc[r] = "run"
    /\ LET uid == loc[r].user_id
           call == <<Event(r, "Persistence", "save_snapchat_data", 0, ok)>>
       IN  IF ok
           THEN /\ snapchat_data' = [snapchat_data EXCEPT ![uid] = loc[r].snapchat_data]
                /\ log' = log \o call
                /\ pc' = [pc EXCEPT ![r] = "save_insight"]
                /\ UNCHANGED <<state, path, outcome>>
           ELSE /\ RunRaise(r, "Persistence",
                            Err("Exception", "save_snapchat_data failed", "Persistence", "run", 0), call)
                /\ UNCHANGED snapchat_data
    /\ UNCHANGED <<users, ai_insights, artifacts, plugins, added, top, loc>>

\* DatabaseSaveInsight of an agent that waits for a write that failed to be
\* acknowledged, which never happens
DatabaseSaveInsightWaits(r, ok) ==
    /\ state[r] = "Persisting"
    /\ pc[r] = "save_insight"
    /\ LET uid == loc[r].user_id
           call == <<Event(r, "Persistence", "save_ai_insight", 0, ok)>>
       IN  IF ok
           THEN /\ ai_insights' = [ai_insights EXCEPT ![uid] = loc[r].insights]
                /\ loc' = [loc EXCEPT ![r].result = TrueResult]
                /\ log' = log \o call \o <<Event(r, "Persistence", "run_return", 0, TrueResult)>>
                /\ pc' = [pc EXCEPT ![r] = "end"]
           ELSE /\ log' = log \o call
                /\ pc' = [pc EXCEPT ![r] = "waiting"]
                /\ UNCHANGED <<ai_insights, loc>>
    /\ UNCHANGED <<users, snapchat_data, artifacts, plugins, added, top, state, path, outcome>>

\* DatabaseAgent.run, step 2: storage.save_ai_insight; return True
DatabaseSaveInsight(r, ok) ==
    /\ state[r] = "Persisting"
    /\ pc[r] = "save_insight"
    /\ LET uid == loc[r].user_id
           call == <<Event(r, "Persistence", "save_ai_insight", 0, ok)>>
       IN  IF ok
           THEN /\ ai_insights' = [ai_insights EXCEPT ![uid] = loc[r].insights]
                /\ loc' = [loc EXCEPT ![r].result = TrueResult]
                /\ log' = log \o call \o <<Event(r, "Persistence", "run_return", 0, TrueResult)>>
                /\ pc' = [pc EXCEPT ![r] = "end"]
                /\ UNCHANGED <<state, path, outcome>>
           ELSE /\ RunRaise(r, "Persistence",
                            Err("Exception", "save_ai_insight failed", "Persistence", "run", 0), call)
                /\ UNCHANGED <<ai_insights, loc>>
    /\ UNCHANGED <<users, snapchat_data, artifacts, plugins, added, top>>

\* Agent.execute of the current stage after run returned: on_agent_end
\* hooks, return result; the caller goes on with its next statement
StageReturn(r) ==
    /\ state[r] \in StageStates
    /\ pc[r] = "end"
    /\ LET a == StageOf(state[r])
           result == loc[r].result
           t == _trigger_end(plugins[r][a], r, a, result)
           value == ExecuteReturnValue(result, t)
       IN  IF t.raised # NoError
           THEN /\ Raise(r, a, t.raised, t.events)
                /\ UNCHANGED loc
           ELSE /\ log' = log \o t.events \o <<Event(r, a, "return", 0, value)>>
                /\ IF top[r] = a
                   THEN /\ Goto(r, "Completed")
                        /\ pc' = [pc EXCEPT ![r] = "done"]
                        /\ outcome' = [outcome EXCEPT ![r] =
                                          [status |-> "returned", error |-> NoError, value |-> value]]
                        /\ UNCHANGED loc
                   ELSE /\ IF a = "Persistence"
                           THEN UNCHANGED <<state, path>>
                           ELSE Goto(r, AfterStage(a))
                        /\ pc' = [pc EXCEPT ![r] =
                                     CASE a = "Analysis" -> "decode"
                                       [] a = "Persistence" -> "return"
                                       [] OTHER -> "execute"]
                        /\ loc' = [loc EXCEPT ![r] =
                                     CASE a = "Fetch" -> [@ EXCEPT !.snapchat_data_artifact = value.ref]
                                       [] a = "Analysis" -> [@ EXCEPT !.insight_artifact = value.ref]
                                       [] OTHER -> @]
                        /\ UNCHANGED outcome
    /\ UNCHANGED <<users, snapchat_data, ai_insights, artifacts, plugins, added, top>>

\* OrchestratorAgent.run returns the bundle; the orchestrator's execute
\* notifies on_agent_end and returns it to the caller
OrchestratorReturn(r) ==
    /\ state[r] = "Persisting"
    /\ pc[r] = "return"
    /\ LET bundle == Bundle(loc[r].snapchat_data, loc[r].insights)
           t == _trigger_end(plugins[r]["Orchestrator"], r, "Orchestrator", bundle)
           value == ExecuteReturnValue(bundle, t)
           pre == <<Event(r, "Orchestrator", "run_return", 0, bundle)>> \o t.events
       IN  IF t.raised # NoError
           THEN Raise(r, "Orchestrator", t.raised, pre)
           ELSE /\ log' = log \o pre \o <<Event(r, "Orchestrator", "return", 0, value)>>
                /\ Goto(r, "Completed")
                /\ pc' = [pc EXCEPT ![r] = "done"]
                /\ outcome' = [outcome EXCEPT ![r] =
                                  [status |-> "returned", error |-> NoError, value |-> value]]
    /\ UNCHANGED <<users, snapchat_data, ai_insights, artifacts, plugins, added, top, loc>>

Next ==
    \E r \in Runs :
        \/ \E a \in Agents, p \in PluginKinds : AddPlugin(r, a, p)
        \/ \E uid \in Subjects : Execute(r, uid)
        \/ \E art \in CallerArtifacts : ExecuteAnalysis(r, art)
        \/ StageExecute(r)
        \/ FetchGetUser(r)
        \/ \E data \in UpstreamData : FetchSnapchatData(r, data)
        \/ FetchCreateArtifact(r)
        \/ \E text \in InsightTexts : AnalysisRun(r, text)
        \/ AnalysisCreateArtifact(r)
        \/ OrchestratorDecode(r)
        \/ ValidationRun(r)
        \/ \E pii \in BOOLEAN, inappropriate \in BOOLEAN : SafetyRun(r, pii, inappropriate)
        \/ \E relevant \in BOOLEAN, actionable \in BOOLEAN : EvaluationRun(r, relevant, actionable)
        \/ \E ok \in BOOLEAN : DatabaseSaveData(r, ok)
        \/ \E ok \in BOOLEAN : DatabaseSaveInsight(r, ok)
        \/ StageReturn(r)
        \/ OrchestratorReturn(r)

Spec == Init /\ [][Next]_vars

(* ---------------------------- history helpers -------------------------- *)
LogIdx == 1..Len(log)
\* event i belongs to run r, agent a, and is of kind ev
Is(i, r, a, ev) == log[i].run = r /\ log[i].agent = a /\ log[i].ev = ev
Has(r, a, ev) == \E i \in LogIdx : Is(i, r, a, ev)
\* number of events of run r, agent a, kind ev
Count(r, a, ev) == Cardinality({i \in LogIdx : Is(i, r, a, ev)})
FailureEvents == {"run_raise", "hook_raise", "raise"}
SubAgents == Agents \ {"Orchestrator"}
\* the execute calls into sub-agents made by run r, in order
StageCalls(r) == SelectSeq(log, LAMBDA e : e.run = r /\ e.ev = "execute" /\ e.agent \in SubAgents)
\* run r was started by orchestrator.execute
IsOrchestratorRun(r) == top[r] = "Orchestrator" /\ state[r] \notin {"Idle", "Created"}

(* ------------------------------- C1 ----------------------------------- *)
\* C1: in every orchestrator run the sub-agents are invoked in the order
\* Fetch, Analysis, Validation, Safety, Evaluation, Persistence; a stage is
\* invoked only after the previous stage's execute returned, and never
\* after any failure occurred in the run.
C1_StagesInOrderAndOnlyAfterSuccess ==
    \A r \in Runs : IsOrchestratorRun(r) =>
        LET calls == StageCalls(r)
        IN  /\ Len(calls) <= Len(Stages)
            /\ \A k \in 1..Len(calls) : calls[k].agent = Stages[k]
            /\ \A i \in LogIdx :
                 (log[i].run = r /\ log[i].ev \in {"execute", "run"} /\ log[i].agent \in SubAgents) =>
                    /\ \A j \in 1..(i - 1) : log[j].run = r => log[j].ev \notin FailureEvents
                    /\ \A k \in 2..Len(Stages) : log[i].agent = Stages[k] =>
                          \E j \in 1..(i - 1) : Is(j, r, Stages[k - 1], "return")

\* a run in which Safety failed after Fetch, Analysis and Validation succeeded
C1_Witness ==
    \E r \in Runs :
        /\ IsOrchestratorRun(r)
        /\ state[r] = "Failed"
        /\ Has(r, "Safety", "run_raise")
        /\ Len(StageCalls(r)) = 4

(* ------------------------------- C2 ----------------------------------- *)
\* C2: the orchestrator returns a bundle only when all six stages have
\* succeeded; a run in which a stage or the decoding failed returns no
\* value at all.
C2_BundleOnlyAfterAllStages ==
    \A r \in Runs : IsOrchestratorRun(r) =>
        /\ outcome[r].status = "returned" =>
              /\ state[r] = "Completed"
              /\ \A k \in 1..Len(Stages) : Has(r, Stages[k], "return")
              /\ \A i \in LogIdx : log[i].run = r => log[i].ev \notin FailureEvents
              /\ outcome[r].value = Bundle(loc[r].snapchat_data, loc[r].insights)
        /\ (state[r] = "Failed" \/ \E i \in LogIdx : log[i].run = r /\ log[i].ev \in FailureEvents) =>
              /\ outcome[r].status = "raised"
              /\ outcome[r].value = NoneResult
        /\ outcome[r].status = "none" => outcome[r].value = NoneResult

\* a run that failed in the last stage, after the raw data was written
C2_Witness ==
    \E r \in Runs :
        /\ IsOrchestratorRun(r)
        /\ state[r] = "Failed"
        /\ Has(r, "Persistence", "run_raise")
        /\ snapchat_data[loc[r].user_id] # NoneVal
        /\ outcome[r].value = NoneResult

(* ------------------------------- C3 ----------------------------------- *)
\* number of times hook h of the i-th plugin of agent a was invoked in run r
HookCount(r, a, h, i) == Cardinality({j \in LogIdx : Is(j, r, a, h) /\ log[j].idx = i})
\* the execute call of agent a in run r has ended
CallEnded(r, a) == Has(r, a, "return") \/ Has(r, a, "raise")
\* the invocations of hook h of agent a in run r are in attachment order
InAttachmentOrder(r, a, h) ==
    \A j, k \in LogIdx : (j < k /\ Is(j, r, a, h) /\ Is(k, r, a, h)) => log[j].idx < log[k].idx

\* C3: in every execute call, whatever run and the hooks do, each plugin's
\* onStart fires exactly once and exactly one of its onEnd and onError
\* fires, exactly once, each group of hooks in attachment order (a plugin
\* is only expected to be notified through the hooks it implements).
C3_HooksExactlyOnceAndExclusive ==
    \A r \in Runs, a \in Agents : CallEnded(r, a) =>
        /\ \A h \in Hooks : InAttachmentOrder(r, a, h)
        /\ \A i \in 1..Len(plugins[r][a]) :
              LET p == plugins[r][a][i]
                  ends == HookCount(r, a, "on_agent_end", i)
                  errors == HookCount(r, a, "on_agent_error", i)
              IN  /\ p.on_agent_start # "absent" => HookCount(r, a, "on_agent_start", i) = 1
                  /\ ~(ends >= 1 /\ errors >= 1)
                  /\ (p.on_agent_end # "absent" /\ p.on_agent_error # "absent") => ends + errors = 1

(* ------------------------------- C4 ----------------------------------- *)
\* the exception the run method of agent a raised in run r
RunError(r, a) == log[CHOOSE i \in LogIdx : Is(i, r, a, "run_raise")].arg
\* the exception the execute call of agent a signalled to its caller in run r
Signalled(r, a) == log[CHOOSE i \in LogIdx : Is(i, r, a, "raise")].arg

\* C4: whenever the run method of an agent fails, execute invokes onError of
\* every attached plugin (that implements it) with that failure, does not
\* return, and signals that very failure to its caller.
C4_RunFailureResignalledUnchanged ==
    \A r \in Runs, a \in Agents : Has(r, a, "run_raise") =>
        /\ ~Has(r, a, "return")
        /\ Has(r, a, "raise")
        /\ Signalled(r, a) = RunError(r, a)
        /\ \A i \in 1..Len(plugins[r][a]) :
              plugins[r][a][i].on_agent_error # "absent" =>
                  /\ HookCount(r, a, "on_agent_error", i) = 1
                  /\ \A j \in LogIdx : (Is(j, r, a, "on_agent_error") /\ log[j].idx = i) =>
                        log[j].arg = RunError(r, a)

(* ------------------------------- C5 ----------------------------------- *)
\* C5: when the run method of a stage fails inside an orchestrator run, the
\* stage's plugins are notified through onError, then the orchestrator's
\* plugins, each exactly once, and the caller receives the exception the
\* stage raised.
C5_StageFailurePropagatesInOrder ==
    \A r \in Runs, a \in SubAgents : (IsOrchestratorRun(r) /\ Has(r, a, "run_raise")) =>
        /\ outcome[r].status = "raised"
        /\ outcome[r].error = RunError(r, a)
        /\ \A i \in 1..Len(plugins[r][a]) :
              plugins[r][a][i].on_agent_error # "absent" =>
                  HookCount(r, a, "on_agent_error", i) = 1
        /\ \A i \in 1..Len(plugins[r]["Orchestrator"]) :
              plugins[r]["Orchestrator"][i].on_agent_error # "absent" =>
                  HookCount(r, "Orchestrator", "on_agent_error", i) = 1
        /\ \A j, k \in LogIdx :
              (Is(j, r, a, "on_agent_error") /\ Is(k, r, "Orchestrator", "on_agent_error")) => j < k

(* ------------------------------- C6 ----------------------------------- *)
\* a credential field that is None or the empty string
Unusable(c) == c = NoneVal \/ c = ""
\* the subject of run r is not in the directory or lacks a credential
NoCredentials(r) ==
    LET u == users[loc[r].user_id]
    IN  ~u.present \/ Unusable(u.snapchat_client_id) \/ Unusable(u.snapchat_api_key)
\* no hook raised in run r
NoHookRaised(r) == \A i \in LogIdx : log[i].run = r => log[i].ev # "hook_raise"
\* nothing was added to the artifact store and nothing was written to storage
NothingStored ==
    /\ artifacts = << >>
    /\ \A s \in Subjects : snapchat_data[s] = NoneVal /\ ai_insights[s] = NoneVal

\* C6: for a subject that is absent from the directory, or present with a
\* credential that is None or empty, the run never calls the upstream fetch,
\* creates no artifact and writes nothing to storage; once Fetch has looked
\* the subject up, its run has raised "Snapchat credentials not found" and
\* the run has failed with it.
C6_MissingCredentialsFailBeforeFetch ==
    \A r \in Runs : (IsOrchestratorRun(r) /\ NoCredentials(r)) =>
        /\ state[r] \in {"Fetching", "Failed"}
        /\ ~Has(r, "Fetch", "fetch_snapchat_data")
        /\ \A a \in Agents : ~Has(r, a, "create")
        /\ ~Has(r, "Persistence", "save_snapchat_data")
        /\ ~Has(r, "Persistence", "save_ai_insight")
        /\ NothingStored
        /\ \A a \in SubAgents : Has(r, a, "run_raise") => a = "Fetch"
        /\ Has(r, "Fetch", "get_user") =>
              /\ state[r] = "Failed"
              /\ Has(r, "Fetch", "run_raise")
              /\ RunError(r, "Fetch").type = "ValueError"
              /\ RunError(r, "Fetch").msg = "Snapchat credentials not found"
              /\ outcome[r].status = "raised"
              /\ NoHookRaised(r) => outcome[r].error = RunError(r, "Fetch")
        /\ pc[r] = "done" =>
              /\ state[r] = "Failed"
              /\ Has(r, "Fetch", "run_raise") \/ ~NoHookRaised(r)

\* subject 1 is registered with an empty api key and the run has failed in
\* Fetch
C6_Witness ==
    \E r \in Runs :
        /\ IsOrchestratorRun(r)
        /\ loc[r].user_id = 1
        /\ users[1].present
        /\ users[1].snapchat_client_id = "test_client_id"
        /\ users[1].snapchat_api_key = ""
        /\ state[r] = "Failed"
        /\ Has(r, "Fetch", "run_raise")

(* ------------------------------- C7 ----------------------------------- *)
\* the states of a run that completes, in order
FullPath ==
    <<"Created", "Fetching", "Analyzing", "DecodingArtifacts", "Validating",
      "ScreeningSafety", "Evaluating", "Persisting", "Completed">>
\* p is a prefix of q
IsPrefix(p, q) == Len(p) <= Len(q) /\ \A i \in 1..Len(p) : p[i] = q[i]

ValidationData(r) == log[CHOOSE i \in LogIdx : Is(i, r, "Validation", "run")].arg[1]

\* C8: when the run method of Validation is called with data that has no
\* totalFollowers key, it raises "Invalid Snapchat data: missing
\* totalFollowers", the run fails, none of Safety, Evaluation and
\* Persistence is invoked and nothing is written to storage.
C8_MissingFollowersFailsValidation ==
    \A r \in Runs :
        (Has(r, "Validation", "run") /\ ~HasKey(ValidationData(r), "totalFollowers")) =>
            /\ \/ state[r] = "Validating" /\ pc[r] = "run"
               \/ /\ state[r] = "Failed"
                  /\ Has(r, "Validation", "run_raise")
                  /\ RunError(r, "Validation").msg = "Invalid Snapchat data: missing totalFollowers"
                  /\ ~Has(r, "Validation", "return")
                  /\ outcome[r].status = "raised"
            /\ \A a \in {"Safety", "Evaluation", "Persistence"} :
                  ~Has(r, a, "execute") /\ ~Has(r, a, "run")
            /\ \A s \in Subjects : snapchat_data[s] = NoneVal /\ ai_insights[s] = NoneVal

\* Validation has rejected data without totalFollowers that came with a
\* non-empty insight
C8_Witness ==
    \E r \in Runs :
        /\ Has(r, "Validation", "run_raise")
        /\ loc[r].snapchat_data = DataNoFollowers
        /\ loc[r].insights # ""
        /\ state[r] = "Failed"

(* ------------------------------- C9 ----------------------------------- *)
\* content b is not the encoding of a JSON document
NotJson(b) == \E i \in 1..Len(b) : b[i].k \in {"bad", "text"}
\* the artifact the run method of Analysis was called with
AnalysisInput(r) == artifacts[log[CHOOSE i \in LogIdx : Is(i, r, "Analysis", "run")].arg[1]]

\* C9: when the run method of Analysis is called with an artifact whose
\* content is not valid JSON, it raises "Invalid Snapchat data format in
\* artifact" without calling the insight generator and without creating an
\* artifact, and Persistence is not invoked in that run.
C9_MalformedArtifactFailsAnalysis ==
    \A r \in Runs :
        (Has(r, "Analysis", "run") /\ NotJson(AnalysisInput(r).content)) =>
            /\ \/ state[r] = "Analyzing" /\ pc[r] = "run"
               \/ /\ state[r] = "Failed"
                  /\ Has(r, "Analysis", "run_raise")
                  /\ RunError(r, "Analysis").type = "ValueError"
                  /\ RunError(r, "Analysis").msg = "Invalid Snapchat data format in artifact"
                  /\ outcome[r].status = "raised"
            /\ ~Has(r, "Analysis", "generate_ai_insight")
            /\ ~Has(r, "Analysis", "create")
            /\ ~Has(r, "Analysis", "return")
            /\ ~Has(r, "Persistence", "execute")
            /\ ~Has(r, "Persistence", "save_snapchat_data")
            /\ ~Has(r, "Persistence", "save_ai_insight")

\* Analysis has rejected an artifact that holds a byte outside UTF-8
C9_Witness ==
    \E r \in Runs :
        /\ Has(r, "Analysis", "run_raise")
        /\ \E i \in 1..Len(AnalysisInput(r).content) : AnalysisInput(r).content[i] = BadByte
        /\ AnalysisInput(r).mimeType = "application/json"
        /\ state[r] = "Failed"

(* ------------------------------- C10 ---------------------------------- *)
\* the argument of the only event of kind ev of agent a in run r
ArgOf(r, a, ev) == log[CHOOSE i \in LogIdx : Is(i, r, a, ev)].arg

\* C10: whatever plugins are attached, run receives the arguments execute
\* was given and execute returns the value run returned; the hooks are
\* handed these same values; the bundle the orchestrator returns is made of
\* the upstream answer and the generated text alone.
C10_HooksNotifiedNotConsulted ==
    /\ \A i \in LogIdx :
          LET e == log[i]
          IN  /\ e.ev \in {"run", "on_agent_start"} =>
                    Has(e.run, e.agent, "execute") /\ e.arg = ArgOf(e.run, e.agent, "execute")
              /\ e.ev \in {"return", "on_agent_end"} =>
                    Has(e.run, e.agent, "run_return") /\ e.arg = ArgOf(e.run, e.agent, "run_return")
    /\ \A r \in Runs : (IsOrchestratorRun(r) /\ outcome[r].status = "returned") =>
          /\ outcome[r].value = ArgOf(r, "Orchestrator", "run_return")
          /\ outcome[r].value = Bundle(loc[r].fetched, loc[r].insight)

\* a completed run in which a plugin added to the Fetch agent was notified
\* of the start and of the end
C10_Witness ==
    \E r \in Runs :
        /\ IsOrchestratorRun(r)
        /\ state[r] = "Completed"
        /\ Len(plugins[r]["Fetch"]) = 2
        /\ HookCount(r, "Fetch", "on_agent_start", 2) + HookCount(r, "Fetch", "on_agent_end", 2) >= 1
        /\ outcome[r].value = Bundle(loc[r].fetched, loc[r].insight)

(* ------------------------------- C11 ---------------------------------- *)
\* run r belongs to an orchestrator, started or not
OfOrchestrator(r) == top[r] = "Orchestrator" /\ state[r] # "Idle"
\* the states run r has been in follow the machine: a prefix of FullPath,
\* or a prefix that stops before Completed followed by Failed
FollowsMachine(r) ==
    LET p == path[r]
        n == Len(p)
    IN  /\ n >= 1
        /\ state[r] = p[n]
        /\ \/ IsPrefix(p, FullPath)
           \/ /\ n >= 2
              /\ p[n] = "Failed"
              /\ p[n - 1] # "Completed"
              /\ IsPrefix(SubSeq(p, 1, n - 1), FullPath)
\* nothing happens in run r after its failure was delivered to the caller
FailedIsAbsorbing(r) ==
    state[r] = "Failed" =>
        /\ pc[r] = "done"
        /\ outcome[r].status = "raised"
        /\ \A i \in LogIdx : Is(i, r, "Orchestrator", "raise") =>
              \A j \in (i + 1)..Len(log) : log[j].run # r

\* C11: the states of an orchestrator run are entered in the order Created,
\* Fetching, Analyzing, DecodingArtifacts, Validating, ScreeningSafety,
\* Evaluating, Persisting, Completed, none skipped or entered twice; Failed
\* is entered from a state before Completed, nothing happens after it, and
\* the exception the failed run carries is the one the failing stage raised.
C11_RunFollowsStateMachine ==
    \A r \in Runs : OfOrchestrator(r) =>
        /\ FollowsMachine(r)
        /\ FailedIsAbsorbing(r)
        /\ \A a \in Agents :
              (state[r] = "Failed" /\ Has(r, a, "run_raise")) => outcome[r].error = RunError(r, a)

(* ------------------------------- C12 ---------------------------------- *)
\* event i is an event of a sub-agent of run r
IsStageEvent(i, r) == log[i].run = r /\ log[i].agent \in SubAgents
\* event i is a hook notification of agent a in run r
IsHook(i, r, a) == log[i].run = r /\ log[i].agent = a /\ log[i].ev \in Hooks
\* the events of the body of a run method
BodyEvents ==
    {"run", "get_user", "fetch_snapchat_data", "create", "generate_ai_insight",
     "contains_pii", "contains_inappropriate_content", "_is_relevant", "_is_actionable",
     "save_snapchat_data", "save_ai_insight", "run_return", "run_raise"}

\* C12: in an orchestrator run the orchestrator's on_agent_start hooks come
\* before every event of every sub-agent and its on_agent_end and
\* on_agent_error hooks after all of them; the on_agent_start hooks of a
\* sub-agent come before its run, its on_agent_end and on_agent_error hooks
\* after it, and the events of one sub-agent are contiguous, so the hooks
\* of two stages never interleave.
C12_HooksBracketRuns ==
    \A r \in Runs : IsOrchestratorRun(r) =>
        /\ \A i \in LogIdx : IsHook(i, r, "Orchestrator") =>
              IF log[i].ev = "on_agent_start"
              THEN \A j \in 1..(i - 1) : ~IsStageEvent(j, r)
              ELSE \A j \in (i + 1)..Len(log) : ~IsStageEvent(j, r)
        /\ \A i \in LogIdx : (IsStageEvent(i, r) /\ log[i].ev \in Hooks) =>
              IF log[i].ev = "on_agent_start"
              THEN \A j \in 1..(i - 1) :
                      (log[j].run = r /\ log[j].agent = log[i].agent) =>
                          log[j].ev \in {"execute", "on_agent_start"}
              ELSE \A j \in (i + 1)..Len(log) :
                      (log[j].run = r /\ log[j].agent = log[i].agent) =>
                          log[j].ev \notin BodyEvents \cup {"execute", "on_agent_start"}
        /\ \A i \in 2..Len(log) :
              (IsStageEvent(i, r) /\ log[i - 1].run = r /\ log[i - 1].agent # log[i].agent) =>
                  /\ log[i].ev = "execute"
                  /\ \A j \in 1..(i - 1) : log[j].run = r => log[j].agent # log[i].agent
        /\ pc[r] = "done" =>
              /\ HookCount(r, "Orchestrator", "on_agent_start", 1) = 1
              /\ HookCount(r, "Orchestrator", "on_agent_end", 1)
                    + HookCount(r, "Orchestrator", "on_agent_error", 1) >= 1

\* a completed run: every stage and the orchestrator notified the start and
\* the end to their LoggingPlugin
C12_Witness ==
    \E r \in Runs :
        /\ IsOrchestratorRun(r)
        /\ state[r] = "Completed"
        /\ \A a \in Agents :
              /\ HookCount(r, a, "on_agent_start", 1) = 1
              /\ HookCount(r, a, "on_agent_end", 1) = 1

(* ------------------------------- C13 ---------------------------------- *)
\* a storage call of kind ev made by run r came back with answer ok
Saved(r, ev, ok) == \E i \in LogIdx : Is(i, r, "Persistence", ev) /\ log[i].arg = ok
\* the run method of Persistence raised and the run ended without a value
PersistenceFailed(r) ==
    /\ Has(r, "Persistence", "run_raise")
    /\ ~Has(r, "Persistence", "run_return")
    /\ RunError(r, "Persistence").agent = "Persistence"
    /\ state[r] = "Failed"
    /\ outcome[r].status = "raised"
    /\ outcome[r].value = NoneResult

KindOf(error) ==
    CASE error.msg = "Snapchat credentials not found" -> "MissingCredentials"
      [] error.msg = "Invalid Snapchat API credentials" -> "UpstreamFetchError"
      [] error.msg = "Invalid Snapchat data format in artifact" -> "MalformedArtifact"
      [] error.msg = "Invalid Snapchat data: missing totalFollowers" -> "InvalidData"
      [] error.msg = "Invalid insights: not a string" -> "InvalidInsight"
      [] error.msg \in {"Snapchat data contains PII", "Insights contain inappropriate content"} ->
            "SafetyViolation"
      [] error.msg = "Insights are not relevant" -> "InsightNotRelevant"
      [] error.msg = "Insights are not actionable" -> "InsightNotActionable"
      [] error.msg \in {"save_snapchat_data failed", "save_ai_insight failed"} -> "PersistenceError"
      [] OTHER -> "Other"
\* the kinds the run method of agent a can fail with
KindsOf(a) ==
    CASE a = "Fetch" -> {"MissingCredentials", "UpstreamFetchError"}
      [] a \in {"Analysis", "Orchestrator"} -> {"MalformedArtifact"}
      [] a = "Validation" -> {"InvalidData", "InvalidInsight"}
      [] a = "Safety" -> {"SafetyViolation"}
      [] a = "Evaluation" -> {"InsightNotRelevant", "InsightNotActionable"}
      [] a = "Persistence" -> {"PersistenceError"}

\* C14: when the run method of a stage (or the decoding) fails in an
\* orchestrator run, the caller receives an exception and no value; the
\* exception is of the kind of the failure that occurred, a kind of that
\* stage, and carries its message.
C14_CallerReceivesOriginatingKind ==
    \A r \in Runs, a \in Agents : (IsOrchestratorRun(r) /\ Has(r, a, "run_raise")) =>
        /\ state[r] = "Failed"
        /\ outcome[r].status = "raised"
        /\ outcome[r].value = NoneResult
        /\ KindOf(RunError(r, a)) \in KindsOf(a)
        /\ outcome[r].error.msg # ""
        /\ outcome[r].error.msg = RunError(r, a).msg
        /\ KindOf(outcome[r].error) = KindOf(RunError(r, a))

(* ------------------------------- C15 ---------------------------------- *)
\* the calls a run makes: execute, run, and the collaborator calls
CallEvents ==
    {"execute", "run", "get_user", "fetch_snapchat_data", "create", "generate_ai_insight",
     "contains_pii", "contains_inappropriate_content", "_is_relevant", "_is_actionable",
     "save_snapchat_data", "save_ai_insight"}

\* C15: in an orchestrator run execute and run of every agent are invoked at
\* most once and every collaborator call of a stage is made at most once; a
\* run method fails at most once in the run, no call is made after that
\* failure, and the run is then Failed.
C15_NoRetry ==
    \A r \in Runs : IsOrchestratorRun(r) =>
        /\ \A i, j \in LogIdx :
              (i < j /\ log[i].run = r /\ log[j].run = r /\ log[i].ev \in CallEvents) =>
                  ~(log[j].ev = log[i].ev /\ log[j].agent = log[i].agent)
        /\ \A i \in LogIdx : (log[i].run = r /\ log[i].ev = "run_raise") =>
              /\ state[r] = "Failed"
              /\ pc[r] = "done"
              /\ \A j \in (i + 1)..Len(log) :
                    log[j].run = r => log[j].ev \notin CallEvents \cup {"run_raise", "run_return"}

\* Evaluation rejected the insight as not actionable after five stages were
\* run once each
C15_Witness ==
    \E r \in Runs :
        /\ IsOrchestratorRun(r)
        /\ state[r] = "Failed"
        /\ Has(r, "Evaluation", "run_raise")
        /\ RunError(r, "Evaluation").msg = "Insights are not actionable"
        /\ \A k \in 1..5 : Count(r, Stages[k], "run") = 1
        /\ Count(r, "Persistence", "run") = 0

(* ------------------- concurrent orchestrator runs ---------------------- *)
\* the runs started as concurrent asyncio tasks
ConcRuns == {1, 2}
\* the user run_orchestrator.setup_test_user registers
TestUser ==
    [present |-> TRUE, snapchat_client_id |-> "test_client_id", snapchat_api_key |-> "test_client_id"]
\* subjects a task is started for: the first for subject 1, the second for
\* the same or another subject
ConcSubjects(r) == IF r = 1 THEN {1} ELSE Subjects
\* an answer of the upstream API taken after the account gained a follower
DataLater == <<Pair("totalFollowers", 24584), Pair("engagementRate", 52)>>
\* the insight generator answers the two tasks with different texts
ConcTexts(r) == IF r = 1 THEN {"Post between 6-8pm"} ELSE {"Share more stories"}
\* answers of the upstream API: the two tasks are answered with different
\* data, so that the value a task decodes tells whose fetch it came from
ConcData(r) == IF r = 1 THEN {DataSimulated} ELSE {DataLater}

\* task r is not running: not started, ended, or suspended in an await of a
\* collaborator call (get_user, fetch_snapchat_data, create,
\* generate_ai_insight, save_snapchat_data, save_ai_insight)
Awaiting(r) ==
    \/ state[r] \in {"Idle", "Created", "Completed", "Failed"}
    \/ state[r] = "Fetching" /\ pc[r] \in {"run", "fetch", "create"}
    \/ state[r] = "Analyzing" /\ pc[r] \in {"run", "create"}
    \/ state[r] = "Persisting" /\ pc[r] \in {"run", "save_insight"}

\* the event loop runs one task at a time: task r takes a step only while
\* every other task is not running
Scheduled(r) == \A q \in Runs \ {r} : Awaiting(q)

InitConc ==
    /\ users = [s \in Subjects |-> TestUser]
    /\ snapchat_data = [s \in Subjects |-> NoneVal]
    /\ ai_insights = [s \in Subjects |-> NoneVal]
    /\ artifacts = << >>
    /\ plugins = [r \in Runs |-> InitPlugins]
    /\ added = 0
    /\ top = [r \in Runs |-> "Orchestrator"]
    /\ state = [r \in Runs |-> IF r \in ConcRuns THEN "Created" ELSE "Idle"]
    /\ path = [r \in Runs |-> <<state[r]>>]
    /\ pc = [r \in Runs |-> "entry"]
    /\ loc = [r \in Runs |-> NoLocals]
    /\ outcome = [r \in Runs |-> NoOutcome]
    /\ log = << >>

\* the steps of the tasks with the collaborators of the source: the
\* predicates are the stubs, the generator answers with a text, the storage
\* writes succeed
NextConc ==
    \E r \in ConcRuns :
        \/ Scheduled(r) /\ \E uid \in ConcSubjects(r) : Execute(r, uid)
        \/ Scheduled(r) /\ StageExecute(r)
        \/ Scheduled(r) /\ FetchGetUser(r)
        \/ Scheduled(r) /\ \E data \in ConcData(r) : FetchSnapchatData(r, data)
        \/ Scheduled(r) /\ FetchCreateArtifact(r)
        \/ Scheduled(r) /\ \E text \in ConcTexts(r) : AnalysisRun(r, text)
        \/ Scheduled(r) /\ AnalysisCreateArtifact(r)
        \/ Scheduled(r) /\ OrchestratorDecode(r)
        \/ Scheduled(r) /\ ValidationRun(r)
        \/ Scheduled(r) /\ SafetyRun(r, contains_pii(loc[r].snapchat_data),
                                      contains_inappropriate_content(loc[r].insights))
        \/ Scheduled(r) /\ EvaluationRun(r, _is_relevant(loc[r].insights),
                                          _is_actionable(loc[r].insights))
        \/ Scheduled(r) /\ DatabaseSaveData(r, TRUE)
        \/ Scheduled(r) /\ DatabaseSaveInsight(r, TRUE)
        \/ Scheduled(r) /\ StageReturn(r)
        \/ Scheduled(r) /\ OrchestratorReturn(r)

SpecConc == InitConc /\ [][NextConc]_vars

(* ------------------------------- C16 ---------------------------------- *)
\* the position in the store of the artifact the Fetch stage of run r
\* created (0 before)
FetchArtifactOf(r) ==
    IF loc[r].snapchat_data_artifact # 0 THEN loc[r].snapchat_data_artifact
    ELSE IF state[r] = "Fetching" /\ pc[r] = "end" THEN loc[r].result.ref
    ELSE 0
\* run r has decoded its artifacts
Decoded(r) == Len(path[r]) >= 5 /\ path[r][5] = "Validating"

\* C16: while orchestrator runs for the same or for different subjects
\* interleave at their collaborator calls, every artifact keeps the name and
\* the content it was created with; the two runs hold different artifacts;
\* each run decodes the value its own upstream fetch answered with and the
\* text its own generator call answered with, and returns these.
C16_ArtifactsKeepContentAcrossRuns ==
    \A r \in ConcRuns :
        /\ FetchArtifactOf(r) # 0 =>
              /\ loc[r].fetched \in ConcData(r)
              /\ artifacts[FetchArtifactOf(r)] =
                    Artifact(FetchName(loc[r].user_id), JsonDumps(loc[r].fetched), "application/json")
              /\ \A q \in ConcRuns \ {r} : FetchArtifactOf(q) # FetchArtifactOf(r)
        /\ loc[r].insight_artifact # 0 =>
              /\ artifacts[loc[r].insight_artifact].content = Utf8Encode(loc[r].insight)
              /\ artifacts[loc[r].insight_artifact].name =
                    InsightName(artifacts[FetchArtifactOf(r)].name)
        /\ Decoded(r) =>
              /\ loc[r].snapchat_data = loc[r].fetched
              /\ loc[r].insights = loc[r].insight
        /\ state[r] = "Completed" => outcome[r].value = Bundle(loc[r].fetched, loc[r].insight)

\* two runs for subject 1: the second created its artifact snapchat-data-1
\* after the first had created its own and before the first decoded it
C16_Witness ==
    /\ loc[1].user_id = 1
    /\ loc[2].user_id = 1
    /\ Decoded(1)
    /\ loc[1].snapchat_data = DataSimulated
    /\ FetchArtifactOf(1) # 0
    /\ FetchArtifactOf(1) < FetchArtifactOf(2)
    /\ FetchArtifactOf(2) < loc[1].insight_artifact
    /\ artifacts[FetchArtifactOf(1)].name = artifacts[FetchArtifactOf(2)].name
    /\ artifacts[FetchArtifactOf(2)].content = JsonDumps(DataLater)

(* -------------------- two runs, one after the other -------------------- *)
\* run r has ended
Finished(r) == state[r] \in {"Completed", "Failed"}
\* the caller starts a run when the runs before it have ended
InOrder(r) == \A q \in ConcRuns : q < r => Finished(q)

\* the second run finds the artifacts and the stored values the first left
NextSeq ==
    \E r \in ConcRuns :
        \/ InOrder(r) /\ \E uid \in Subjects : Execute(r, uid)
        \/ InOrder(r) /\ StageExecute(r)
        \/ InOrder(r) /\ FetchGetUser(r)
        \/ InOrder(r) /\ \E data \in UpstreamData : FetchSnapchatData(r, data)
        \/ InOrder(r) /\ FetchCreateArtifact(r)
        \/ InOrder(r) /\ \E text \in InsightTexts : AnalysisRun(r, text)
        \/ InOrder(r) /\ AnalysisCreateArtifact(r)
        \/ InOrder(r) /\ OrchestratorDecode(r)
        \/ InOrder(r) /\ ValidationRun(r)
        \/ InOrder(r) /\ SafetyRun(r, contains_pii(loc[r].snapchat_data),
                                   contains_inappropriate_content(loc[r].insights))
        \/ InOrder(r) /\ EvaluationRun(r, _is_relevant(loc[r].insights),
                                       _is_actionable(loc[r].insights))
        \/ InOrder(r) /\ \E ok \in BOOLEAN : DatabaseSaveData(r, ok)
        \/ InOrder(r) /\ \E ok \in BOOLEAN : DatabaseSaveInsight(r, ok)
        \/ InOrder(r) /\ StageReturn(r)
        \/ InOrder(r) /\ OrchestratorReturn(r)

SpecSeq == InitConc /\ [][NextSeq]_vars

(* ------------------------------- C17 ---------------------------------- *)
\* C17: when two runs, one after the other, for the same subject are both
\* answered the same data by the upstream fetch and both complete, the
\* snapchatData of their bundles are equal, and equal to that answer,
\* whatever artifacts and stored values the first run left behind.
C17_SameFetchSameRawData ==
    \A r, q \in ConcRuns :
        (/\ state[r] = "Completed"
         /\ state[q] = "Completed"
         /\ loc[r].user_id = loc[q].user_id
         /\ loc[r].fetched = loc[q].fetched) =>
            /\ outcome[r].value.kind = "bundle"
            /\ outcome[r].value.data = outcome[q].value.data
            /\ outcome[r].value.data = loc[r].fetched

\* the second run for subject 1 completed after the first had left two
\* artifacts and the stored values; both were answered the simulated data
C17_Witness ==
    /\ state[1] = "Completed"
    /\ state[2] = "Completed"
    /\ loc[1].user_id = 1
    /\ loc[2].user_id = 1
    /\ loc[1].fetched = DataSimulated
    /\ loc[2].fetched = DataSimulated
    /\ Len(artifacts) = 4
    /\ artifacts[1].name = artifacts[3].name
    /\ loc[2].snapchat_data_artifact = 3
    /\ outcome[2].value.data = DataSimulated

(* ------------------------------- C18 ---------------------------------- *)
\* C18: whenever a plugin hook (on_agent_start, on_agent_end or
\* on_agent_error) raises during an execute call of an agent, that call ends
\* by raising to its caller and returns no result; when the call is the one
\* the caller of the run made, the caller receives an exception.
C18_HookFailureNotSwallowed ==
    \A i \in LogIdx :
        log[i].ev = "hook_raise" =>
            /\ \E j \in LogIdx : j > i /\ Is(j, log[i].run, log[i].agent, "raise")
            /\ \A j \in LogIdx : ~Is(j, log[i].run, log[i].agent, "return")
            /\ outcome[log[i].run].status = "raised"
            /\ state[log[i].run] = "Failed"

\* an on_agent_end hook of the Validation stage raised after the stage's run
\* had returned, and the caller of the run received an exception
C18_Witness ==
    \E i \in LogIdx :
        /\ i > 2
        /\ log[i].ev = "hook_raise"
        /\ log[i].agent = "Validation"
        /\ log[i - 1].ev = "on_agent_end"
        /\ \E j \in 1..(i - 1) : Is(j, log[i].run, "Validation", "run_return")
        /\ outcome[log[i].run].status = "raised"

(* ------------------------------- C19 ---------------------------------- *)
\* the insight the run method of Validation was called with
ValidationInsight(r) == log[CHOOSE i \in LogIdx : Is(i, r, "Validation", "run")].arg[2]
\* the run method of Validation has been called and has ended
ValidationEnded(r) == Has(r, "Validation", "run") /\ ~(state[r] = "Validating" /\ pc[r] = "run")

\* C19: the run method of Validation raises "Invalid Snapchat data: missing
\* totalFollowers" exactly when the data are absent or have no totalFollowers
\* key, whatever the value under the key (0 included), and, the insight
\* being a text, returns in every other case.
C19_ValidationChecksPresenceOnly ==
    \A r \in Runs :
        ValidationEnded(r) =>
            IF ValidationData(r) = << >> \/ ~HasKey(ValidationData(r), "totalFollowers")
            THEN /\ Has(r, "Validation", "run_raise")
                 /\ RunError(r, "Validation").msg = "Invalid Snapchat data: missing totalFollowers"
            ELSE Has(r, "Validation", "run_return")

(* ------------------------------- C20 ---------------------------------- *)
\* the transitions run r has taken
Transitions(r) == Len(path[r]) - 1
\* the stage states run r has entered, in order
StagesEntered(r) == SelectSeq(path[r], LAMBDA st : st \in StageStates)

\* C20 as stated: in an orchestrator run that reached Completed the number
\* of state transitions taken equals the number of execute calls made into
\* sub-agents.
C20_TransitionPerExecuteCall ==
    \A r \in Runs :
        (IsOrchestratorRun(r) /\ state[r] = "Completed") =>
            Transitions(r) = Len(StageCalls(r))

\* C20 amended: in an orchestrator run the execute calls into sub-agents
\* correspond one-to-one and in order to the stage states entered, the call
\* for the state entered last being possibly still to come; the transitions
\* into DecodingArtifacts, Completed and Failed have no execute call of
\* their own, so that a run that reached Completed has made six calls and
\* taken eight transitions.
C20_ExecuteCallPerStageEntered ==
    \A r \in Runs :
        IsOrchestratorRun(r) =>
            LET calls == StageCalls(r)
                entered == StagesEntered(r)
            IN  /\ Len(calls) <= Len(entered)
                /\ Len(entered) <= Len(calls) + 1
                /\ \A i \in 1..Len(calls) : StateOf(calls[i].agent) = entered[i]
                /\ Len(entered) = Len(calls) + 1 =>
                       state[r] = entered[Len(entered)] /\ pc[r] = "execute"
                /\ Transitions(r) = Len(entered) + Cardinality({i \in 1..Len(path[r]) :
                       path[r][i] \in {"DecodingArtifacts", "Completed", "Failed"}})
                /\ state[r] = "Completed" =>
                       Len(calls) = Len(Stages) /\ Transitions(r) = Len(calls) + 2

\* an orchestrator run reached Completed after six execute calls into
\* sub-agents and eight transitions
C20_Witness ==
    \E r \in Runs :
        /\ IsOrchestratorRun(r)
        /\ state[r] = "Completed"
        /\ Len(StageCalls(r)) = Len(Stages)
        /\ path[r] = FullPath
        /\ Transitions(r) = Len(StageCalls(r)) + 2

(* ------------------------------- C21 ---------------------------------- *)
\* the events of the sub-agents of run r, in order
StageEvents(r) == SelectSeq(log, LAMBDA e : e.run = r /\ e.agent \in SubAgents)
\* the events that end an execute call
CallEnds == {"return", "raise"}

\* C21: in an orchestrator run the events of the sub-agents form one execute
\* call after the other: an execute call of a stage begins only when the
\* call before it has returned (its on_agent_end hooks included), every
\* other event belongs to the call that is open, and nothing follows a call
\* that raised; so at most one stage is in progress at any time.
C21_StagesStrictlySequential ==
    \A r \in Runs : IsOrchestratorRun(r) =>
        LET s == StageEvents(r)
        IN  \A k \in 1..Len(s) :
                IF s[k].ev = "execute"
                THEN k = 1 \/ (s[k - 1].ev = "return" /\ s[k - 1].agent # s[k].agent)
                ELSE /\ k > 1
                     /\ s[k - 1].agent = s[k].agent
                     /\ s[k - 1].ev \notin CallEnds

\* the run method of Safety has begun after the execute call of Validation
\* returned, the on_agent_end hook of Validation's plugin having been notified
C21_Witness ==
    \E r \in Runs :
        /\ IsOrchestratorRun(r)
        /\ Has(r, "Safety", "run")
        /\ \E i, j, k \in LogIdx :
              /\ i < j
              /\ j < k
              /\ Is(i, r, "Validation", "on_agent_end")
              /\ Is(j, r, "Validation", "return")
              /\ Is(k, r, "Safety", "execute")

(* ------------------------------- C22 ---------------------------------- *)
\* event i is event ev of agent a in the run of event j
SameRun(i, j, a, ev) == log[i].run = log[j].run /\ log[i].agent = a /\ log[i].ev = ev

\* C22: the run method of Safety consults contains_pii first; when it
\* answers true the run raises "Snapchat data contains PII" and
\* contains_inappropriate_content is not consulted; when it answers false
\* contains_inappropriate_content is consulted, and the run raises "Insights
\* contain inappropriate content" when that answers true and returns when it
\* answers false; the run raises and returns in no other way, and the
\* predicates of the source answer false for every data and every insight.
C22_SafetyShortCircuits ==
    /\ \A d \in UpstreamData, t \in InsightTexts :
          ~contains_pii(d) /\ ~contains_inappropriate_content(t)
    /\ \A i \in LogIdx :
          log[i].agent = "Safety" =>
              CASE log[i].ev = "contains_pii" ->
                       /\ i > 1 /\ SameRun(i - 1, i, "Safety", "run")
                       /\ i < Len(log)
                       /\ IF log[i].arg
                          THEN SameRun(i + 1, i, "Safety", "run_raise")
                          ELSE SameRun(i + 1, i, "Safety", "contains_inappropriate_content")
                [] log[i].ev = "contains_inappropriate_content" ->
                       /\ i > 1 /\ SameRun(i - 1, i, "Safety", "contains_pii")
                       /\ ~log[i - 1].arg
                       /\ i < Len(log)
                       /\ IF log[i].arg
                          THEN SameRun(i + 1, i, "Safety", "run_raise")
                          ELSE SameRun(i + 1, i, "Safety", "run_return")
                [] log[i].ev = "run_raise" ->
                       /\ i > 1
                       /\ log[i].arg.type = "Exception"
                       /\ \/ /\ SameRun(i - 1, i, "Safety", "contains_pii")
                             /\ log[i - 1].arg
                             /\ log[i].arg.msg = "Snapchat data contains PII"
                          \/ /\ SameRun(i - 1, i, "Safety", "contains_inappropriate_content")
                             /\ log[i - 1].arg
                             /\ log[i].arg.msg = "Insights contain inappropriate content"
                [] log[i].ev = "run_return" ->
                       /\ i > 1
                       /\ SameRun(i - 1, i, "Safety", "contains_inappropriate_content")
                       /\ ~log[i - 1].arg
                [] OTHER -> TRUE

\* contains_pii answered true: the run of Safety raised, naming the data,
\* without consulting contains_inappropriate_content, and the run failed
C22_Witness ==
    \E r \in Runs :
        /\ state[r] = "Failed"
        /\ Has(r, "Safety", "contains_pii")
        /\ ~Has(r, "Safety", "contains_inappropriate_content")
        /\ Has(r, "Safety", "run_raise")
        /\ RunError(r, "Safety").msg = "Snapchat data contains PII"

(* ------------------------------- C23 ---------------------------------- *)
\* C23: the run method of Evaluation consults _is_relevant first; when it
\* answers false the run raises ValueError "Insights are not relevant" and
\* _is_actionable is not consulted, whatever it would answer; when it
\* answers true _is_actionable is consulted, and the run raises ValueError
\* "Insights are not actionable" when that answers false and returns when it
\* answers true; the run raises and returns in no other way.
C23_EvaluationChecksRelevanceFirst ==
    \A i \in LogIdx :
        log[i].agent = "Evaluation" =>
            CASE log[i].ev = "_is_relevant" ->
                     /\ i > 1 /\ SameRun(i - 1, i, "Evaluation", "run")
                     /\ i < Len(log)
                     /\ IF log[i].arg
                        THEN SameRun(i + 1, i, "Evaluation", "_is_actionable")
                        ELSE SameRun(i + 1, i, "Evaluation", "run_raise")
              [] log[i].ev = "_is_actionable" ->
                     /\ i > 1 /\ SameRun(i - 1, i, "Evaluation", "_is_relevant")
                     /\ log[i - 1].arg
                     /\ i < Len(log)
                     /\ IF log[i].arg
                        THEN SameRun(i + 1, i, "Evaluation", "run_return")
                        ELSE SameRun(i + 1, i, "Evaluation", "run_raise")
              [] log[i].ev = "run_raise" ->
                     /\ i > 1
                     /\ log[i].arg.type = "ValueError"
                     /\ \/ /\ SameRun(i - 1, i, "Evaluation", "_is_relevant")
                           /\ ~log[i - 1].arg
                           /\ log[i].arg.msg = "Insights are not relevant"
                        \/ /\ SameRun(i - 1, i, "Evaluation", "_is_actionable")
                           /\ ~log[i - 1].arg
                           /\ log[i].arg.msg = "Insights are not actionable"
              [] log[i].ev = "run_return" ->
                     /\ i > 1
                     /\ SameRun(i - 1, i, "Evaluation", "_is_actionable")
                     /\ log[i - 1].arg
              [] OTHER -> TRUE

\* _is_relevant answered true and _is_actionable false: the run of
\* Evaluation raised "Insights are not actionable" and the run failed
\* before Persistence
C23_Witness ==
    \E r \in Runs :
        /\ state[r] = "Failed"
        /\ Has(r, "Evaluation", "_is_relevant")
        /\ Has(r, "Evaluation", "_is_actionable")
        /\ Has(r, "Evaluation", "run_raise")
        /\ RunError(r, "Evaluation").msg = "Insights are not actionable"
        /\ ~Has(r, "Persistence", "execute")

(* -------------------- runs whose collaborators answer ------------------ *)
\* a step of run r after its caller started it: a hook loop, a statement of
\* a run method, or the answer of a collaborator the run is awaiting
RunStep(r) ==
    \/ StageExecute(r)
    \/ FetchGetUser(r)
    \/ \E data \in UpstreamData : FetchSnapchatData(r, data)
    \/ FetchCreateArtifact(r)
    \/ \E text \in InsightTexts : AnalysisRun(r, text)
    \/ AnalysisCreateArtifact(r)
    \/ OrchestratorDecode(r)
    \/ ValidationRun(r)
    \/ \E pii \in BOOLEAN, inappropriate \in BOOLEAN : SafetyRun(r, pii, inappropriate)
    \/ \E relevant \in BOOLEAN, actionable \in BOOLEAN : EvaluationRun(r, relevant, actionable)
    \/ \E ok \in BOOLEAN : DatabaseSaveData(r, ok)
    \/ \E ok \in BOOLEAN : DatabaseSaveInsight(r, ok)
    \/ StageReturn(r)
    \/ OrchestratorReturn(r)

\* every collaborator call returns, with a value or a failure, and the event
\* loop resumes the run: a run that can take a step takes one (every step
\* moves the run's position or adds to the log)
SpecLive == Init /\ [][Next]_vars /\ \A r \in Runs : WF_<<pc, state, Len(log)>>(RunStep(r))

(* ------------------------------- C24 ---------------------------------- *)
\* run r has been started and has not ended
InProgress(r) == state[r] \notin {"Idle", "Created", "Completed", "Failed"}
\* run r ended with an exception that the log records as raised in run r
EndedByFailure(r) ==
    /\ outcome[r].status = "raised"
    /\ outcome[r].error # NoError
    /\ Len(log) > 0
    /\ log[Len(log)].run = r => log[Len(log)].ev = "raise"
    /\ \E i \in LogIdx : log[i].run = r /\ log[i].ev = "raise" /\ log[i].arg = outcome[r].error

\* C24: when every collaborator call returns, a run that has been started
\* eventually reaches Completed or Failed; a run is Failed only when an
\* exception was raised in it and delivered to its caller, and a run that
\* has ended stays as it ended (nothing cancels or resumes it).
C24_RunsTerminate ==
    /\ [](\A r \in Runs : state[r] = "Failed" => EndedByFailure(r))
    /\ [][\A r \in Runs : Finished(r) => state'[r] = state[r] /\ outcome'[r] = outcome[r]]_<<state, outcome>>
    /\ \A r \in Runs : InProgress(r) ~> Finished(r)

\* a run went through every state up to Persisting and ended Failed when
\* the last collaborator call, save_ai_insight, answered with a failure
C24_Witness ==
    \E r \in Runs :
        /\ state[r] = "Failed"
        /\ EndedByFailure(r)
        /\ Len(path[r]) = Len(FullPath)
        /\ Has(r, "Persistence", "save_ai_insight")
        /\ Has(r, "Persistence", "run_raise")

(* ---------------- agents with several plugins attached ----------------- *)
\* plugins attached to one agent after construction
MaxAttached == 2
\* the lists of at most MaxAttached plugins a caller attaches, in order
AttachedLists ==
    UNION {[1..n -> PluginKinds] : n \in 0..MaxAttached}

\* one run about to start; its caller has attached the plugins of one list
\* to one of its agents
InitHooks ==
    /\ users = [s \in Subjects |-> TestUser]
    /\ snapchat_data = [s \in Subjects |-> NoneVal]
    /\ ai_insights = [s \in Subjects |-> NoneVal]
    /\ artifacts = << >>
    /\ \E a \in Agents, ps \in AttachedLists :
          plugins = [r \in Runs |->
                        IF r \in MainRuns THEN [InitPlugins EXCEPT ![a] = @ \o ps]
                        ELSE InitPlugins]
    /\ added = 0
    /\ top = [r \in Runs |-> "Orchestrator"]
    /\ state = [r \in Runs |-> IF r \in MainRuns THEN "Created" ELSE "Idle"]
    /\ path = [r \in Runs |-> <<state[r]>>]
    /\ pc = [r \in Runs |-> "entry"]
    /\ loc = [r \in Runs |-> NoLocals]
    /\ outcome = [r \in Runs |-> NoOutcome]
    /\ log = << >>

NextHooks ==
    \E r \in Runs :
        \/ \E uid \in Subjects : Execute(r, uid)
        \/ StageExecute(r)
        \/ FetchGetUser(r)
        \/ FetchSnapchatData(r, DataSimulated)
        \/ FetchCreateArtifact(r)
        \/ \E text \in InsightTexts : AnalysisRun(r, text)
        \/ AnalysisCreateArtifact(r)
        \/ OrchestratorDecode(r)
        \/ ValidationRun(r)
        \/ SafetyRun(r, contains_pii(loc[r].snapchat_data),
                     contains_inappropriate_content(loc[r].insights))
        \/ \E relevant \in BOOLEAN : EvaluationRun(r, relevant, _is_actionable(loc[r].insights))
        \/ DatabaseSaveData(r, TRUE)
        \/ \E ok \in BOOLEAN : DatabaseSaveInsight(r, ok)
        \/ StageReturn(r)
        \/ OrchestratorReturn(r)

SpecHooks == InitHooks /\ [][NextHooks]_vars

(* ------------------------------- C25 ---------------------------------- *)
\* the lifecycle point of hook h of agent a has been reached in run r
Triggered(r, a, h) ==
    CASE h = "on_agent_start" -> Has(r, a, "execute")
      [] h = "on_agent_end" -> Has(r, a, "run_return") /\ CallEnded(r, a)
      [] h = "on_agent_error" -> Has(r, a, "raise")
\* the plugins of agent a that implement hook h and have no plugin before
\* them whose hook h raises
Expected(r, a, h) ==
    {i \in 1..Len(plugins[r][a]) :
        /\ plugins[r][a][i][h] # "absent"
        /\ \A k \in 1..(i - 1) : plugins[r][a][k][h] # "raise"}
\* the invocations of hook h of agent a in run r, in order
HookCalls(r, a, h) == SelectSeq(log, LAMBDA e : e.run = r /\ e.agent = a /\ e.ev = h)
\* the plugins of agent a whose hook h was invoked in run r
Notified(r, a, h) == LET c == HookCalls(r, a, h) IN {c[k].idx : k \in 1..Len(c)}

\* C25: at each lifecycle point of an agent the hook is invoked, once and in
\* attachment order, on exactly the attached plugins that implement it, up
\* to the first whose hook raises: a plugin that does not implement the
\* hook is skipped, the plugins after it are still notified, and only a
\* hook that is implemented and raises fails the execute call.
C25_AbsentHooksAreSkipped ==
    /\ \A r \in MainRuns, a \in Agents, h \in Hooks :
          LET c == HookCalls(r, a, h)
          IN  IF Triggered(r, a, h)
              THEN /\ {c[k].idx : k \in 1..Len(c)} = Expected(r, a, h)
                   /\ \A k \in 1..(Len(c) - 1) : c[k].idx < c[k + 1].idx
              ELSE c = << >>
    /\ \A j \in LogIdx :
          log[j].ev = "hook_raise" =>
              plugins[log[j].run][log[j].agent][log[j].idx][log[j].arg.site] = "raise"

\* an agent with three plugins, the second without on_agent_start and the
\* third with it: the hook was invoked on the first and the third, and the
\* execute call of the agent returned
C25_Witness ==
    \E r \in MainRuns, a \in Agents :
        /\ Len(plugins[r][a]) = 3
        /\ plugins[r][a][2].on_agent_start = "absent"
        /\ plugins[r][a][3].on_agent_start = "ok"
        /\ Notified(r, a, "on_agent_start") = {1, 3}
        /\ Has(r, a, "return")

(* ------------------- agent-service: the HTTP entry point ---------------- *)
\* JSON bodies of a POST to /run-agent-workflow: an object whose userId is a
\* number, null or "", an object without userId, and bodies that are not
\* objects
BodyKinds == {"userId", "userId_null", "userId_empty", "no_userId", "null", "array"}
Bodies ==
    [kind : {"userId"}, userId : Subjects \cup {0}] \cup
    [kind : BodyKinds \ {"userId"}, userId : {0}]
\* data = request.get_json() is a dict
IsDict(body) == body.kind \notin {"null", "array"}
\* not user_id, for user_id = data.get("userId")
FalsyUserId(body) ==
    body.kind \in {"userId_null", "userId_empty", "no_userId"} \/ body.userId = 0

\* f"Snapchat credentials not found for user {user_id}"
CredentialsMessage(uid) ==
    IF uid = 1 THEN "Snapchat credentials not found for user 1"
    ELSE "Snapchat credentials not found for user 999"

\* the response of the handler to request r
Response(code, error, value) == [status |-> code, error |-> error, value |-> value]

\* except Exception as e: return jsonify({"error": str(e)}), 500
SvcFail(r, a, error, calls) ==
    /\ log' = log \o calls \o <<Event(r, a, "run_raise", 0, error),
                                Event(r, "Orchestrator", "respond", 0, "500")>>
    /\ Goto(r, "Failed")
    /\ pc' = [pc EXCEPT ![r] = "done"]
    /\ outcome' = [outcome EXCEPT ![r] = Response("500", error, NoneResult)]

\* the run method of an agent returned: the orchestrator calls the next one
SvcGoOn(r, a, calls, next) ==
    /\ log' = log \o calls \o <<Event(r, a, "run_return", 0, TrueResult)>>
    /\ Goto(r, next)
    /\ UNCHANGED <<pc, outcome>>

\* run_agent_workflow up to the call of orchestrator.run
SvcHandle(r, body) ==
    /\ state[r] = "Created"
    /\ \A q \in ConcRuns : q < r => pc[q] = "done"
    /\ LET received == <<Event(r, "Orchestrator", "request", 0, body)>>
       IN  IF ~IsDict(body)
           THEN \* data.get raises AttributeError outside the try block
                /\ log' = log \o received \o <<Event(r, "Orchestrator", "respond", 0, "500")>>
                /\ Goto(r, "Rejected")
                /\ pc' = [pc EXCEPT ![r] = "done"]
                /\ outcome' = [outcome EXCEPT ![r] =
                      Response("500", Err("AttributeError", "object has no attribute 'get'",
                                          "Orchestrator", "handler", 0), NoneResult)]
                /\ UNCHANGED loc
           ELSE IF FalsyUserId(body)
           THEN /\ log' = log \o received \o <<Event(r, "Orchestrator", "respond", 0, "400")>>
                /\ Goto(r, "Rejected")
                /\ pc' = [pc EXCEPT ![r] = "done"]
                /\ outcome' = [outcome EXCEPT ![r] =
                      Response("400", Err("", "userId is required", "Orchestrator", "handler", 0),
                               NoneResult)]
                /\ UNCHANGED loc
           ELSE /\ log' = log \o received \o
                             <<Event(r, "Orchestrator", "construct", 0, << >>),
                               Event(r, "Orchestrator", "run", 0, <<body.userId>>)>>
                /\ Goto(r, "Fetching")
                /\ pc' = [pc EXCEPT ![r] = "run"]
                /\ loc' = [loc EXCEPT ![r].user_id = body.userId]
                /\ UNCHANGED outcome
    /\ UNCHANGED <<users, snapchat_data, ai_insights, artifacts, plugins, added, top>>

\* agent-service SnapchatDataFetcherAgent.run: get_user, credentials check,
\* fetch_snapchat_data, storage.save_snapchat_data, return snapchat_data
SvcFetch(r, ok) ==
    /\ state[r] = "Fetching"
    /\ pc[r] = "run"
    /\ LET uid == loc[r].user_id
           user == users[uid]
           looked == <<Event(r, "Fetch", "run", 0, <<uid>>), Event(r, "Fetch", "get_user", 0, uid)>>
           got == fetch_snapchat_data(user.snapchat_client_id, user.snapchat_api_key, DataSimulated)
           fetched == looked \o <<Event(r, "Fetch", "fetch_snapchat_data", 0,
                                        <<user.snapchat_client_id, user.snapchat_api_key>>)>>
           saved == fetched \o <<Event(r, "Fetch", "save_snapchat_data", 0, ok)>>
       IN  IF CredentialsMissing(user)
           THEN /\ SvcFail(r, "Fetch", Err("Exception", CredentialsMessage(uid), "Fetch", "run", 0), looked)
                /\ UNCHANGED <<snapchat_data, loc>>
           ELSE IF ~got.ok
           THEN /\ SvcFail(r, "Fetch", Err("Exception", got.msg, "Fetch", "run", 0), fetched)
                /\ UNCHANGED <<snapchat_data, loc>>
           ELSE IF ~ok
           THEN /\ SvcFail(r, "Fetch", Err("Exception", "save_snapchat_data failed", "Fetch", "run", 0), saved)
                /\ UNCHANGED <<snapchat_data, loc>>
           ELSE /\ snapchat_data' = [snapchat_data EXCEPT ![uid] = Append(@, got.val)]
                /\ loc' = [loc EXCEPT ![r].user = user, ![r].fetched = got.val, ![r].snapchat_data = got.val]
                /\ SvcGoOn(r, "Fetch", saved, "Analyzing")
    /\ UNCHANGED <<users, ai_insights, artifacts, plugins, added, top>>

\* agent-service DataAnalysisAgent.run: return generate_ai_insight(snapchat_data)
SvcAnalysis(r, text, ok) ==
    /\ state[r] = "Analyzing"
    /\ pc[r] = "run"
    /\ LET calls == <<Event(r, "Analysis", "run", 0, <<loc[r].snapchat_data>>),
                      Event(r, "Analysis", "generate_ai_insight", 0, ok)>>
       IN  IF ok
           THEN /\ loc' = [loc EXCEPT ![r].insights = text]
                /\ SvcGoOn(r, "Analysis", calls, "Validating")
           ELSE /\ SvcFail(r, "Analysis", Err("Exception", "generate_content failed", "Analysis", "run", 0), calls)
                /\ UNCHANGED loc
    /\ UNCHANGED <<users, snapchat_data, ai_insights, artifacts, plugins, added, top>>

\* a stage of the service that only checks its arguments
SvcCheck(r, a, msg, next) ==
    /\ LET calls == <<Event(r, a, "run", 0, <<loc[r].snapchat_data, loc[r].insights>>)>>
       IN  IF msg # ""
           THEN SvcFail(r, a, Err("Exception", msg, a, "run", 0), calls)
           ELSE SvcGoOn(r, a, calls, next)
    /\ UNCHANGED <<users, snapchat_data, ai_insights, artifacts, plugins, added, top, loc>>

\* TestAgent().run(snapchat_data, insights)
SvcValidation(r) ==
    /\ state[r] = "Validating"
    /\ pc[r] = "run"
    /\ SvcCheck(r, "Validation", TestAgentRun(loc[r].snapchat_data, loc[r].insights), "ScreeningSafety")

\* SafetyAgent().run(snapchat_data, insights)
SvcSafety(r, pii, inappropriate) ==
    /\ state[r] = "ScreeningSafety"
    /\ pc[r] = "run"
    /\ SvcCheck(r, "Safety", SafetyAgentRun(pii, inappropriate), "Evaluating")

\* EvaluationAgent().run(insights)
SvcEvaluation(r, relevant, actionable) ==
    /\ state[r] = "Evaluating"
    /\ pc[r] = "run"
    /\ SvcCheck(r, "Evaluation", EvaluationAgentRun(relevant, actionable), "Persisting")

\* agent-service DatabaseAgent.run: save_snapchat_data, save_ai_insight
SvcDatabase(r, ok1, ok2) ==
    /\ state[r] = "Persisting"
    /\ pc[r] = "run"
    /\ LET uid == loc[r].user_id
           first == <<Event(r, "Persistence", "run", 0, <<uid>>),
                      Event(r, "Persistence", "save_snapchat_data", 0, ok1)>>
           both == first \o <<Event(r, "Persistence", "save_ai_insight", 0, ok2)>>
       IN  IF ~ok1
           THEN /\ SvcFail(r, "Persistence", Err("Exception", "save_snapchat_data failed", "Persistence", "run", 0), first)
                /\ UNCHANGED <<snapchat_data, ai_insights>>
           ELSE /\ snapchat_data' = [snapchat_data EXCEPT ![uid] = Append(@, loc[r].snapchat_data)]
                /\ IF ~ok2
                   THEN /\ SvcFail(r, "Persistence", Err("Exception", "save_ai_insight failed", "Persistence", "run", 0), both)
                        /\ UNCHANGED ai_insights
                   ELSE /\ ai_insights' = [ai_insights EXCEPT ![uid] = Append(@, loc[r].insights)]
                        /\ log' = log \o both \o <<Event(r, "Persistence", "run_return", 0, TrueResult)>>
                        /\ pc' = [pc EXCEPT ![r] = "respond"]
                        /\ UNCHANGED <<state, path, outcome>>
    /\ UNCHANGED <<users, artifacts, plugins, added, top, loc>>

\* orchestrator.run returns the result and the handler answers jsonify(result)
SvcRespond(r) ==
    /\ state[r] = "Persisting"
    /\ pc[r] = "respond"
    /\ LET result == Bundle(loc[r].snapchat_data, loc[r].insights)
       IN  /\ log' = log \o <<Event(r, "Orchestrator", "run_return", 0, result),
                              Event(r, "Orchestrator", "respond", 0, "200")>>
           /\ outcome' = [outcome EXCEPT ![r] = Response("200", NoError, result)]
    /\ Goto(r, "Completed")
    /\ pc' = [pc EXCEPT ![r] = "done"]
    /\ UNCHANGED <<users, snapchat_data, ai_insights, artifacts, plugins, added, top, loc>>

\* the tables of the service are empty, the requests have not arrived
InitSvc ==
    /\ users \in Directories
    /\ snapchat_data = [s \in Subjects |-> << >>]
    /\ ai_insights = [s \in Subjects |-> << >>]
    /\ artifacts = << >>
    /\ plugins = [r \in Runs |-> InitPlugins]
    /\ added = 0
    /\ top = [r \in Runs |-> "Orchestrator"]
    /\ state = [r \in Runs |-> IF r \in ConcRuns THEN "Created" ELSE "Idle"]
    /\ path = [r \in Runs |-> <<state[r]>>]
    /\ pc = [r \in Runs |-> "entry"]
    /\ loc = [r \in Runs |-> NoLocals]
    /\ outcome = [r \in Runs |-> NoOutcome]
    /\ log = << >>

NextSvc ==
    \E r \in ConcRuns :
        \/ \E body \in Bodies : SvcHandle(r, body)
        \/ \E ok \in BOOLEAN : SvcFetch(r, ok)
        \/ \E text \in InsightTexts, ok \in BOOLEAN : SvcAnalysis(r, text, ok)
        \/ SvcValidation(r)
        \/ \E pii \in BOOLEAN, inappropriate \in BOOLEAN : SvcSafety(r, pii, inappropriate)
        \/ \E relevant \in BOOLEAN, actionable \in BOOLEAN : SvcEvaluation(r, relevant, actionable)
        \/ \E ok1 \in BOOLEAN, ok2 \in BOOLEAN : SvcDatabase(r, ok1, ok2)
        \/ SvcRespond(r)

SpecSvc == InitSvc /\ [][NextSvc]_vars

(* ------------------------------- C26 ---------------------------------- *)
\* the body of request r
RequestOf(r) == log[CHOOSE i \in LogIdx : Is(i, r, "Orchestrator", "request")].arg
\* the body has no userId, or one that is null, empty or 0
WithoutUserId(body) ==
    body.kind \in {"null", "array", "no_userId", "userId_null", "userId_empty"} \/ body.userId = 0
\* the handler answered request r as the entry point is meant to
AnsweredAsSpecified(r) ==
    IF WithoutUserId(RequestOf(r))
    THEN /\ outcome[r].status = "400"
         /\ Count(r, "Orchestrator", "construct") = 0
         /\ Count(r, "Orchestrator", "run") = 0
    ELSE /\ Count(r, "Orchestrator", "construct") = 1
         /\ Count(r, "Orchestrator", "run") = 1
         /\ \/ /\ outcome[r].status = "200"
               /\ outcome[r].value = Bundle(loc[r].snapchat_data, loc[r].insights)
               /\ \A i \in LogIdx : log[i].run = r => log[i].ev # "run_raise"
            \/ /\ outcome[r].status = "500"
               /\ outcome[r].value = NoneResult
               /\ \E i \in LogIdx :
                     /\ log[i].run = r
                     /\ log[i].ev = "run_raise"
                     /\ log[i].arg.msg = outcome[r].error.msg

\* C26: a request whose userId is absent, null or falsy (0 included) is
\* answered 400 and the orchestrator is neither constructed nor run; every
\* other request constructs and runs the orchestrator once and is answered
\* with the bundle, or with 500, the message of the failure and no bundle.
C26_HandlerRejectsOrRunsOnce ==
    \A r \in ConcRuns : pc[r] = "done" => AnsweredAsSpecified(r)

(* ------------------------------- C27 ---------------------------------- *)
\* the calls of the persistence collaborator that write
WriteEvents == {"save_snapchat_data", "save_ai_insight"}
\* the run method of agent a returned in run r before event i
ReturnedBefore(r, a, i) == \E j \in 1..(i - 1) : Is(j, r, a, "run_return")

StoredPairOfOneRun(s) ==
    \E r \in ConcRuns :
        /\ loc[r].user_id = s
        /\ snapchat_data[s] = loc[r].snapchat_data
        /\ ai_insights[s] = loc[r].insights

ErrorHandlers(r, a) ==
    {i \in 1..Len(plugins[r][a]) : plugins[r][a][i].on_agent_error # "absent"}
\* after the on_agent_start hook of plugin i of agent a raised error in run
\* r: no later on_agent_start hook, no run, no on_agent_end hook, every
\* on_agent_error hook notified of error, and error signalled to the caller
StartFailureHandled(r, a, i, error) ==
    /\ \A k \in LogIdx :
          (log[k].run = r /\ log[k].agent = a) =>
              /\ log[k].ev \notin BodyEvents \cup {"on_agent_end", "return"}
              /\ log[k].ev = "on_agent_start" => log[k].idx <= i
              /\ log[k].ev = "on_agent_error" => log[k].arg = error
              /\ log[k].ev = "raise" => log[k].arg = error
    /\ {log[k].idx : k \in {j \in LogIdx : Is(j, r, a, "on_agent_error")}} = ErrorHandlers(r, a)
    /\ Has(r, a, "raise")

\* C29: when an on_agent_start hook of an agent raises, the agent's run is
\* not invoked, nor the on_agent_start hooks of the plugins attached after
\* it, nor on_agent_end; the on_agent_error hooks of all attached plugins
\* are invoked with the hook's exception, and that exception is the one
\* signalled to the caller of execute.
C29_StartHookFailureStopsTheCall ==
    \A j \in LogIdx :
        (log[j].ev = "hook_raise" /\ log[j].arg.site = "on_agent_start") =>
            StartFailureHandled(log[j].run, log[j].agent, log[j].idx, log[j].arg)

(* ------------------------------- C30 ---------------------------------- *)
\* the value the run method of Analysis decoded from its artifact in run r
AnalysisDecoded(r) == log[CHOOSE i \in LogIdx : Is(i, r, "Analysis", "generate_ai_insight")].arg

\* C30: in an orchestrator run in which the execute call of Analysis
\* returned, the orchestrator's own decoding of the data artifact and of the
\* insight artifact succeeds and yields the value Analysis decoded and the
\* insight Analysis encoded: the run method of the orchestrator never raises
\* and the run never goes from DecodingArtifacts to Failed.
C30_OrchestratorDecodeCannotFail ==
    \A r \in Runs : IsOrchestratorRun(r) =>
        /\ ~Has(r, "Orchestrator", "run_raise")
        /\ \A k \in 1..(Len(path[r]) - 1) :
              path[r][k] = "DecodingArtifacts" => path[r][k + 1] = "Validating"
        /\ (Has(r, "Analysis", "return") /\ state[r] # "DecodingArtifacts") =>
              /\ Len(path[r]) >= 5
              /\ path[r][5] = "Validating"
              /\ loc[r].snapchat_data = AnalysisDecoded(r)
              /\ loc[r].snapchat_data = loc[r].fetched
              /\ loc[r].insights = loc[r].insight

\* the orchestrator decoded the artifacts after Analysis returned and went
\* on to Validation with the value Analysis had decoded
C30_Witness ==
    \E r \in Runs :
        /\ IsOrchestratorRun(r)
        /\ Has(r, "Analysis", "return")
        /\ Has(r, "Validation", "execute")
        /\ AnalysisDecoded(r) = DataSimulated
        /\ loc[r].snapchat_data = DataSimulated
        /\ loc[r].insights = "Post between 6-8pm"

(* ------------------------------- C31 ---------------------------------- *)
\* the message of the upstream fetch when it rejects the credentials
UpstreamRejection == "Invalid Snapchat API credentials"
\* event i is the run method of Fetch raising
FetchRaised(i) == log[i].agent = "Fetch" /\ log[i].ev = "run_raise"

\* C31: every call of the upstream fetch made by Fetch carries a client id
\* and an api key that are both non-empty, so no run method of Fetch and no
\* run ever fails with "Invalid Snapchat API credentials"; a subject that is
\* absent or lacks a credential makes Fetch itself raise "Snapchat
\* credentials not found" without calling the upstream fetch; and a run in
\* which the run method of Fetch raised has created no artifact.
C31_FetchCallsUpstreamWithCredentials ==
    /\ \A i \in LogIdx :
          /\ log[i].ev = "fetch_snapchat_data" =>
                ~Unusable(log[i].arg[1]) /\ ~Unusable(log[i].arg[2])
          /\ FetchRaised(i) =>
                /\ log[i].arg.msg # UpstreamRejection
                /\ log[i].arg.msg = "Snapchat credentials not found"
                /\ NoCredentials(log[i].run)
                /\ ~Has(log[i].run, "Fetch", "fetch_snapchat_data")
                /\ \A a \in Agents : ~Has(log[i].run, a, "create")
    /\ \A r \in Runs :
          /\ outcome[r].status = "raised" => outcome[r].error.msg # UpstreamRejection
          /\ (IsOrchestratorRun(r) /\ NoCredentials(r) /\ Has(r, "Fetch", "get_user")) =>
                Has(r, "Fetch", "run_raise")
          /\ (IsOrchestratorRun(r) /\ Has(r, "Fetch", "run_raise")) =>
                /\ state[r] = "Failed"
                /\ artifacts = << >>

\* subject 1 is registered with an empty client id: Fetch looked it up and
\* raised "Snapchat credentials not found" without calling the upstream
\* fetch, and the run ended with no artifact in the store
C31_Witness ==
    \E r \in Runs :
        /\ IsOrchestratorRun(r)
        /\ loc[r].user_id = 1
        /\ users[1].present
        /\ users[1].snapchat_client_id = ""
        /\ users[1].snapchat_api_key = "test_client_id"
        /\ Has(r, "Fetch", "get_user")
        /\ Has(r, "Fetch", "run_raise")
        /\ RunError(r, "Fetch").msg = "Snapchat credentials not found"
        /\ ~Has(r, "Fetch", "fetch_snapchat_data")
        /\ artifacts = << >>
        /\ pc[r] = "done"

====
